---- MODULE Spec2Model ----
(***************************************************************************)
(* Order lifecycle of the PULSE-PARCEL backend: order creation with stock  *)
(* and address validation, the order-number pre-save hook, the status and  *)
(* payment-status updates, deletion, reads, and the socket events the      *)
(* handlers emit.  Every action is one store operation of a request        *)
(* handler (one await) together with the synchronous code around it, so    *)
(* concurrent requests interleave exactly at the handlers' awaits.         *)
(* Timestamps (createdAt, tracking[].date) carry no control flow and are   *)
(* left out; a tracking entry is modelled by its status.                   *)
(***************************************************************************)
EXTENDS Integers, Sequences, FiniteSets, TLC

\* ------------------------------------------------------------------ bounds
\* Number of requests started in one behaviour.
MaxRequests == 3
\* Stock every product starts with.
InitStock == 1
\* Rounds of the pre-save loop that are counted for one request.
MaxRounds == 4

\* ------------------------------------------------------------- the world
Slots == {1, 2}
Customers == {"u1", "u2"}
Users == Customers \cup {"admin"}
isAdmin(u) == u = "admin"

Products == {"pA", "pB"}
\* The price each product has in the product store.
productPrice == [pA |-> 1000, pB |-> 500]
\* A well-formed product id that names no product of the store.
UnknownProduct == "pX"

validPaymentMethods == {"Pay on Delivery", "Card Payment", "Bank Transfer", "Paystack"}
validStatusesAndRefunded ==
  {"Placed", "Packed", "In Transit", "Delivered", "Cancelled", "Refunded"}
validStatuses == {"Placed", "Packed", "In Transit", "Delivered", "Cancelled"}
paymentStatusEnum == {"pending", "completed", "failed"}
deliveryFeeDefault == 5000
maxAttempts == 3

\* Address documents (models/Address.js): owner, state, country.  a3 is a
\* document written before state became a required path: it has none.
NoAddress == "none"
AddressDoc(u, st, co, def, k) ==
  [user |-> u, label |-> "Home", street |-> "1 Road", city |-> "Town",
   state |-> st, country |-> co, phone |-> "+2348012345678",
   isDefault |-> def, seq |-> k]
NoAddressDoc ==
  [user |-> "", label |-> "", street |-> "", city |-> "", state |-> "",
   country |-> "", phone |-> "", isDefault |-> FALSE, seq |-> 0]
\* seq is the place of the document in the collection's insertion order.
InitAddresses ==
  [a1 |-> AddressDoc("u1", "Lagos", "NG", TRUE, 1),
   a2 |-> AddressDoc("u2", "Abuja", "NG", FALSE, 2),
   a3 |-> AddressDoc("u1", "", "NG", FALSE, 3)]
\* An id no address document has, and a string that is no ObjectId.
UnknownAddress == "a9"
MalformedId == "not-an-id"

\* ------------------------------------------------------------- documents
Item(p, q, pr) == [product |-> p, quantity |-> q, price |-> pr]

NoDoc ==
  [id |-> 0, user |-> "", addressId |-> NoAddress, items |-> <<>>,
   subtotal |-> 0, deliveryFee |-> 0, total |-> 0, status |-> "",
   paymentMethod |-> "", paymentStatus |-> "", tracking |-> <<>>,
   orderNumber |-> "", deliveredAt |-> FALSE]

\* A user's cart document, or the lack of one.
Cart(items) == [exists |-> TRUE, items |-> items]
NoCart == [exists |-> FALSE, items |-> <<>>]

\* A handler's frame.  attempts is the pre-save hook's counter.  The last
\* line is bookkeeping no handler reads: the request's number, whether it
\* started with no other request running, the stock it found, whether its
\* write to the order store went through, the events it emitted and the
\* rounds of the pre-save loop it began (counted up to MaxRounds).  found
\* is the list PushSubscription.find gave the handler and tasks the state
\* of the send started for each of them, cart the cart document Cart.findOne
\* gave the handler, addrOrig and addrDoc the address document as it was
\* loaded and as the handler has changed it, visitor whether the lookup of
\* the visitor middleware the request passed is still waiting.
IdleReq ==
  [kind |-> "idle", pc |-> "idle", user |-> "", items |-> <<>>,
   address |-> NoAddress, paymentMethod |-> "", id |-> 0, arg |-> "",
   i |-> 0, attempts |-> 0, orig |-> NoDoc, doc |-> NoDoc,
   code |-> 0, err |-> "", body |-> NoDoc,
   n |-> 0, quiet |-> FALSE, stock0 |-> <<>>, persisted |-> FALSE,
   out |-> <<>>, rounds |-> 0, found |-> <<>>, socket |-> "",
   list |-> <<>>, count |-> 0, cart |-> NoCart,
   addrOrig |-> NoAddressDoc, addrDoc |-> NoAddressDoc, tasks |-> <<>>,
   visitor |-> FALSE, counted |-> {}]

\* Connected socket.io clients: whether the socket is connected, the rooms
\* it is in and, as bookkeeping, the join messages it has sent.
SocketIds == {"s1", "s2"}
NewSocket == [connected |-> TRUE, rooms |-> {}, joins |-> {}]

VARIABLES stock, orders, nextOid, addresses, carts, emitted, req, started,
          subscriptions, pushLog, sockets, visitors

\* The PushSubscription collection and the sends webPush was asked to make.
pushVars == <<subscriptions, pushLog, sockets>>

vars == <<stock, orders, nextOid, addresses, carts, emitted, req, started,
          subscriptions, pushLog, sockets, visitors>>

\* --------------------------------------------------------- pure functions
RECURSIVE padStart(_, _, _)
padStart(s, n, c) == IF Len(s) >= n THEN s ELSE padStart(c \o s, n, c)

\* `ORD-${(count + 1).toString().padStart(6, '0')}`
orderNumberForCount(count) == "ORD-" \o padStart(ToString(count), 6, "0")
orderNumberFor(count) == "ORD-" \o padStart(ToString(count + 1), 6, "0")

RECURSIVE reduceSubtotal(_)
\* items.reduce((sum, item) => sum + item.price * item.quantity, 0)
reduceSubtotal(items) ==
  IF items = <<>> THEN 0
  ELSE items[1].price * items[1].quantity + reduceSubtotal(Tail(items))

\* mongoose.isValidObjectId on a string: 24 hex digits (or 12 bytes).
isValidObjectId(id) == id # MalformedId

\* createOrder's per-item validation: a product id that is an ObjectId,
\* quantity >= 1, price >= 0.
itemInvalid(item) ==
  \/ item.product = "" \/ ~isValidObjectId(item.product)
  \/ item.quantity < 1 \/ item.price < 0

\* Product.find({_id: {$in: productIds}}): the distinct stored products named.
productsFoundPerItem(items) ==
  {k \in DOMAIN items : items[k].product \in Products}
productsFound(items) == {items[k].product : k \in DOMAIN items} \cap Products

\* The first item whose product is missing or short of stock, 0 if none.
firstShortItemFirstOnly(items, stk) ==
  IF items[1].product \notin Products \/ stk[items[1].product] < items[1].quantity
    THEN 1 ELSE 0
firstShortItem(items, stk) ==
  LET bad == {k \in DOMAIN items :
                items[k].product \notin Products
                \/ stk[items[k].product] < items[k].quantity}
  IN IF bad = {} THEN 0 ELSE CHOOSE k \in bad : \A j \in bad : k <= j

\* new Order({...}) in createOrder: tracking is not given, so it is empty.
newOrder(oid, u, addr, items, pm) ==
  [id |-> oid, user |-> u, addressId |-> addr, items |-> items,
   subtotal |-> reduceSubtotal(items), deliveryFee |-> deliveryFeeDefault,
   total |-> reduceSubtotal(items) + deliveryFeeDefault, status |-> "Placed",
   paymentMethod |-> pm, paymentStatus |-> "pending", tracking |-> <<>>,
   orderNumber |-> "", deliveredAt |-> FALSE]

\* ------------------------------------------------------------ store access
countDocuments == Cardinality(orders)
hasOrder(oid) == \E o \in orders : o.id = oid
findById(oid) == CHOOSE o \in orders : o.id = oid

\* What mongoose makes of a stored document it loads: a path with a schema
\* default that the document lacks (deliveryFee, written 0) gets the default.
hydrate(o) ==
  [o EXCEPT !.deliveryFee = IF @ = 0 THEN deliveryFeeDefault ELSE @]
load(oid) == hydrate(findById(oid))
hasOrderNumber(n) == \E o \in orders : o.orderNumber = n
findOneByNumber(n) == CHOOSE o \in orders : o.orderNumber = n

\* The unique index on orderNumber: an insert of a taken number is rejected.
uniqueIndexOff(doc) == FALSE
uniqueIndexRejects(doc) == hasOrderNumber(doc.orderNumber)

\* io.to(room).emit(event, payload)
Event(room, event, doc) ==
  [room |-> room, event |-> event, order |-> doc.id, status |-> doc.status,
   paymentStatus |-> doc.paymentStatus]
userRoom(u) == "user_" \o u

\* ------------------------------------------------------ visitor locations
\* The VisitorLocation collection: documents [id, timestamp].  No route of
\* the sources modelled writes it, so it stays as the initial state has it.
Visitor(id, ts) == [id |-> id, timestamp |-> ts]

\* VisitorLocation.findOne().sort({ timestamp: -1 })
latestVisitor(S) == CHOOSE v \in S : \A w \in S : w.timestamp <= v.timestamp

\* io.to('adminRoom').emit('newVisitor', visitor)
VisitorEvent(v) ==
  [room |-> "adminRoom", event |-> "newVisitor", order |-> 0, status |-> "",
   paymentStatus |-> "", visitor |-> v.id]

\* The requests that arrive over HTTP pass the visitor middleware, which is
\* registered before every route; the messages the socket handlers serve do
\* not.
SocketKinds ==
  {"joinAdmin", "joinUser", "onOrderStatusUpdate", "categoryUpdate", "productUpdate"}

\* app.use(async (req, res, next) => { next(); ... }): the middleware hands
\* the request on and then waits for the newest visitor location, so the
\* lookup and the handler's first read are under way together and either may
\* come back first.  With an empty collection the lookup finds nothing and
\* the middleware does nothing more, so a wait is recorded only when a
\* location is stored.
visitorPending(kind) == kind \notin SocketKinds /\ visitors # {}

\* ------------------------------------------------------------ bookkeeping
Free(r) == req[r].pc \in {"idle", "done"} /\ ~req[r].visitor
OthersQuiet(r) == \A s \in Slots \ {r} : Free(s)

LowestFree(r) == Free(r) /\ \A s \in Slots : Free(s) => r <= s
Arrived(r) == req[r].pc = "arrived"

\* A request over HTTP has passed the visitor middleware while a location is
\* stored: it takes slot r, the lowest free one, its lookup is under way and
\* its handler has not had its first step yet.
arrive(r) ==
  /\ visitors # {}
  /\ LowestFree(r)
  /\ started + Cardinality({s \in Slots : Arrived(s)}) < MaxRequests
  /\ req' = [req EXCEPT ![r] = [IdleReq EXCEPT !.pc = "arrived", !.visitor = TRUE]]
  /\ UNCHANGED <<stock, orders, nextOid, addresses, pushVars, carts, emitted,
                 started, visitors>>

\* The first step of the handler of a request, in slot r: the lowest free
\* one (the slots are interchangeable) for a request the middleware starts
\* no lookup for, the slot the request arrived in for one with a lookup,
\* which may have come back by now or not.  The request records its number n,
\* whether every other slot was free (quiet) and the stock it found
\* (stock0); no handler reads these.
Begin(r, rec) ==
  /\ started < MaxRequests
  /\ Arrived(r) \/ LowestFree(r)
  /\ IF visitorPending(rec.kind) THEN Arrived(r) ELSE LowestFree(r)
  /\ started' = started + 1
  /\ req' = [req EXCEPT ![r] = [rec EXCEPT !.n = started + 1,
                                           !.quiet = OthersQuiet(r),
                                           !.stock0 = stock,
                                           !.visitor = Arrived(r) /\ req[r].visitor]]
  /\ UNCHANGED visitors

\* Request r ran while no other request did: none was running when it
\* started and none has started since.
RanAlone(r) == req[r].quiet /\ req[r].n = started

Respond(rec, code, err, body) ==
  [rec EXCEPT !.pc = "done", !.code = code, !.err = err, !.body = body,
              !.i = 0, !.attempts = 0, !.rounds = 0, !.orig = NoDoc,
              !.doc = NoDoc, !.cart = NoCart, !.addrOrig = NoAddressDoc,
              !.addrDoc = NoAddressDoc, !.tasks = <<>>]

Step(r, rec) == req' = [req EXCEPT ![r] = rec]

\* await order.save() rejects: control goes to the handler's catch block,
\* which answers 400 with the error's message.
failSaveIgnored(rec, err) == [rec EXCEPT !.pc = "populate"]
failSave(rec, err) == Respond(rec, 400, err, NoDoc)

\* The request's own record of a write that went through and of its emits.
Persisted(rec) == [rec EXCEPT !.persisted = TRUE]

\* The cart a customer has filled before ordering.
InitCart == Cart(<< Item("pA", 1, 1000) >>)
Sent(rec, events) == [rec EXCEPT !.out = @ \o events]

Init ==
  /\ stock = [p \in Products |-> InitStock]
  /\ orders = {}
  /\ nextOid = 1
  /\ addresses = InitAddresses
  /\ carts = [u \in Users |-> IF u \in Customers THEN InitCart ELSE NoCart]
  /\ emitted = <<>>
  /\ req = [r \in Slots |-> IdleReq]
  /\ started = 0
  /\ visitors = {}
  /\ subscriptions = <<>>
  /\ pushLog = <<>>
  /\ sockets = [s \in SocketIds |-> NewSocket]

\* ------------------------------------------------------------- createOrder
\* Entry of createOrder up to the stock check: payment method, items,
\* Product.find and the stock comparison on the products just read.
createOrder(r, u, items, addr, pm) ==
  LET rec == [IdleReq EXCEPT !.kind = "createOrder", !.user = u, !.items = items,
                             !.address = addr, !.paymentMethod = pm]
      out ==
        IF pm \notin validPaymentMethods
          THEN Respond(rec, 400, "InvalidPaymentMethod", NoDoc)
        ELSE IF items = <<>>
          THEN Respond(rec, 400, "ItemsRequired", NoDoc)
        ELSE IF \E k \in DOMAIN items : itemInvalid(items[k])
          THEN Respond(rec, 400, "InvalidItem", NoDoc)
        ELSE IF Cardinality(productsFound(items)) # Len(items)
          THEN Respond(rec, 400, "ProductsNotFound", NoDoc)
        ELSE IF firstShortItem(items, stock) # 0
          THEN Respond(rec, 400, "InsufficientStock", NoDoc)
        ELSE IF ~isValidObjectId(addr)
          THEN Respond(rec, 400, "InvalidAddressId", NoDoc)
        ELSE [rec EXCEPT !.pc = "findAddress"]
  IN /\ Begin(r, out)
     /\ UNCHANGED <<stock, orders, nextOid, addresses, pushVars, carts, emitted>>

\* The checks on the address document found: 404 when there is none, 403
\* when it is another user's, 400 when state or country is empty, else 0.
addressStatusOwnerUnchecked(a, u) ==
  IF a \notin DOMAIN addresses THEN 404
  ELSE IF addresses[a].state = "" \/ addresses[a].country = "" THEN 400
  ELSE 0
addressStatus(a, u) ==
  IF a \notin DOMAIN addresses THEN 404
  ELSE IF addresses[a].user # u THEN 403
  ELSE IF addresses[a].state = "" \/ addresses[a].country = "" THEN 400
  ELSE 0

\* Address.findById and the address checks, then the totals and new Order.
createOrderFindAddress(r) ==
  LET rec == req[r]
      a == rec.address
      code == addressStatus(a, rec.user)
  IN /\ rec.kind = "createOrder" /\ rec.pc = "findAddress"
     /\ IF code = 404
          THEN /\ Step(r, Respond(rec, 404, "AddressNotFound", NoDoc))
               /\ UNCHANGED nextOid
        ELSE IF code = 403
          THEN /\ Step(r, Respond(rec, 403, "AddressNotOwned", NoDoc))
               /\ UNCHANGED nextOid
        ELSE IF code = 400
          THEN /\ Step(r, Respond(rec, 400, "AddressInvalid", NoDoc))
               /\ UNCHANGED nextOid
        ELSE /\ Step(r, [rec EXCEPT !.pc = "decStock", !.i = 1,
                           !.doc = newOrder(nextOid, rec.user, a, rec.items,
                                            rec.paymentMethod)])
             /\ nextOid' = nextOid + 1
     /\ UNCHANGED <<stock, orders, addresses, pushVars, carts, emitted, started, visitors>>

\* Product.findByIdAndUpdate(item.product, {$inc: {stock: -item.quantity}})
decrementStockSignSlip(stk, item) ==
  [stk EXCEPT ![item.product] = stk[item.product] + item.quantity]
decrementStock(stk, item) ==
  [stk EXCEPT ![item.product] = stk[item.product] - item.quantity]

createOrderDecStock(r) ==
  LET rec == req[r]
  IN /\ rec.kind = "createOrder" /\ rec.pc = "decStock"
     /\ stock' = decrementStock(stock, rec.items[rec.i])
     /\ Step(r, IF rec.i = Len(rec.items)
                  THEN [rec EXCEPT !.pc = "preSaveCount"]
                  ELSE [rec EXCEPT !.i = rec.i + 1])
     /\ UNCHANGED <<orders, nextOid, addresses, pushVars, carts, emitted, started, visitors>>

\* The document a handler saves is new when it was made with new Order(...),
\* not loaded from the store.
isNew(rec) == rec.orig = NoDoc

\* pre('save') hook, the catch block: attempts++, give up at maxAttempts,
\* otherwise wait and go round the loop again.
hookCatchReportsSuccess(rec) == Respond(rec, 201, "", rec.doc)
hookCatch(rec) ==
  IF rec.attempts + 1 >= maxAttempts
    THEN failSave(rec, "OrderNumberExhausted")
    ELSE [rec EXCEPT !.attempts = @ + 1, !.pc = "preSaveCount"]

\* pre('save') hook: a round of the loop begins with countDocuments and the
\* candidate number; ok is whether the store answered.  The hook runs the
\* same on a new document and on a loaded one that has no number.
preSaveCount(r, ok) ==
  LET rec == [req[r] EXCEPT !.rounds = IF @ < MaxRounds THEN @ + 1 ELSE @]
  IN /\ rec.pc = "preSaveCount"
     /\ Step(r, IF ok
                  THEN [rec EXCEPT !.pc = "preSaveFind",
                           !.doc.orderNumber = orderNumberFor(countDocuments)]
                  ELSE hookCatch(rec))
     /\ UNCHANGED <<stock, orders, nextOid, addresses, pushVars, carts, emitted, started, visitors>>

\* pre('save') hook: findOne({orderNumber}); a hit leaves isUnique false and
\* attempts unchanged, so the loop counts again.
preSaveFind(r, ok) ==
  LET rec == req[r]
  IN /\ rec.pc = "preSaveFind"
     /\ Step(r, IF ~ok THEN hookCatch(rec)
                ELSE IF hasOrderNumber(rec.doc.orderNumber)
                  THEN [rec EXCEPT !.pc = "preSaveCount"]
                  ELSE [rec EXCEPT !.pc = IF isNew(rec) THEN "insert" ELSE "save"])
     /\ UNCHANGED <<stock, orders, nextOid, addresses, pushVars, carts, emitted, started, visitors>>

\* order.save(): the insert, rejected by the unique index on a taken number.
\* The cart comes next: cleared by the one controller, deleted by the other.
createOrderInsert(r) ==
  LET rec == req[r]
  IN /\ rec.kind \in {"createOrder", "createOrderBankTransfer"}
     /\ rec.pc = "insert"
     /\ IF uniqueIndexRejects(rec.doc)
          THEN /\ Step(r, failSave(rec, "DuplicateKey"))
               /\ UNCHANGED orders
          ELSE /\ orders' = orders \cup {rec.doc}
               /\ Step(r, Persisted([rec EXCEPT !.pc =
                            IF rec.kind = "createOrder" THEN "clearCart"
                                                        ELSE "deleteCart"]))
     /\ UNCHANGED <<stock, nextOid, addresses, pushVars, carts, emitted, started, visitors>>

\* catch (cartError): the error is logged and reported as systemAlert, whose
\* payload is a message and the error's text, and the handler goes on to the
\* populate.
catchCartErrorRethrown(rec) == Respond(rec, 400, "CartNotCleared", NoDoc)
catchCartError(rec) == [rec EXCEPT !.pc = "populate", !.cart = NoCart]

cartFailed(r) ==
  LET alert == Event("adminRoom", "systemAlert", NoDoc)
  IN /\ emitted' = Append(emitted, alert)
     /\ Step(r, Sent(catchCartError(req[r]), <<alert>>))

\* The cart block, Cart.findOne({user}): no cart is a warning only; ok is
\* whether the store answered.
createOrderClearCart(r, ok) ==
  LET rec == req[r]
      cart == carts[rec.user]
  IN /\ rec.kind = "createOrder" /\ rec.pc = "clearCart"
     /\ IF ~ok THEN cartFailed(r)
        ELSE /\ Step(r, IF cart.exists
                          THEN [rec EXCEPT !.pc = "cartSave", !.cart = cart]
                          ELSE [rec EXCEPT !.pc = "populate"])
             /\ UNCHANGED emitted
     /\ UNCHANGED <<stock, orders, nextOid, addresses, pushVars, carts, started, visitors>>

\* cart.items = []; await cart.save(): the items are written empty when the
\* loaded cart had some; a cart loaded empty is unmodified and its save only
\* checks that the document is still there.  Either way the save of a cart
\* that has been deleted since rejects (DocumentNotFoundError).
createOrderCartSave(r, ok) ==
  LET rec == req[r]
      modified == rec.cart.items # <<>>
  IN /\ rec.kind = "createOrder" /\ rec.pc = "cartSave"
     /\ IF ~ok \/ ~carts[rec.user].exists
          THEN cartFailed(r) /\ UNCHANGED carts
          ELSE /\ carts' = IF modified
                             THEN [carts EXCEPT ![rec.user] = Cart(<<>>)]
                             ELSE carts
               /\ Step(r, [rec EXCEPT !.pc = "cartCheck"])
               /\ UNCHANGED emitted
     /\ UNCHANGED <<stock, orders, nextOid, addresses, pushVars, started, visitors>>

\* The second Cart.findOne and the check of what it gave: items still in the
\* cart throw into the catch.
createOrderCartCheck(r, ok) ==
  LET rec == req[r]
      clearedCart == carts[rec.user]
  IN /\ rec.kind = "createOrder" /\ rec.pc = "cartCheck"
     /\ IF ~ok \/ (clearedCart.exists /\ Len(clearedCart.items) > 0)
          THEN cartFailed(r)
          ELSE /\ Step(r, [rec EXCEPT !.pc = "populate", !.cart = NoCart])
               /\ UNCHANGED emitted
     /\ UNCHANGED <<stock, orders, nextOid, addresses, pushVars, carts, started, visitors>>

\* Order.findById(order._id).populate(...), then newOrder to the admins and
\* orderStatusUpdate to the owner.
createOrderPopulate(r) ==
  LET rec == req[r]
  IN /\ rec.kind = "createOrder" /\ rec.pc = "populate"
     /\ IF ~hasOrder(rec.doc.id)
          THEN /\ Step(r, Respond(rec, 400, "PopulateFailed", NoDoc))
               /\ UNCHANGED emitted
          ELSE LET po == load(rec.doc.id)
                   events == << Event("adminRoom", "newOrder", po),
                                Event(userRoom(po.user), "orderStatusUpdate", po) >>
               IN /\ emitted' = emitted \o events
                  /\ Step(r, Sent([rec EXCEPT !.pc = "notify", !.doc = po], events))
     /\ UNCHANGED <<stock, orders, nextOid, addresses, pushVars, carts, started, visitors>>

\* await createNotification(...): resolves (ok), or rejects into the catch
\* block.
createOrderNotify(r, ok) ==
  LET rec == req[r]
  IN /\ rec.kind = "createOrder" /\ rec.pc = "notify"
     /\ Step(r, IF ok THEN Respond(rec, 201, "", rec.doc)
                      ELSE Respond(rec, 400, "NotificationFailed", NoDoc))
     /\ UNCHANGED <<stock, orders, nextOid, addresses, pushVars, carts, emitted, started, visitors>>

\* if (!req.user.isAdmin) return res.status(403)...
adminRequiredOff(u) == FALSE
adminRequired(u) == ~isAdmin(u)

\* ------------------------------------------------------- updateOrderStatus
\* The recalculation of a missing (falsy) subtotal and total.
recalculateQuantityOnly(o) ==
  [o EXCEPT !.subtotal = IF o.subtotal = 0 THEN Len(o.items) ELSE o.subtotal]
recalculate(o) ==
  LET sub == IF o.subtotal = 0 THEN reduceSubtotal(o.items) ELSE o.subtotal
      fee == IF o.deliveryFee = 0 THEN deliveryFeeDefault ELSE o.deliveryFee
  IN [o EXCEPT !.subtotal = sub,
               !.total = IF o.total = 0 THEN sub + fee ELSE o.total]

\* populate('addressId') yields null when the address document is gone.
addressMissingNever(o) == FALSE
addressMissing(o) == o.addressId \notin DOMAIN addresses

\* Address.findOne({user}): the first address of the user in insertion
\* order, if any.
userAddresses(u) == {a \in DOMAIN addresses : addresses[a].user = u}
firstAddress(u) ==
  CHOOSE a \in userAddresses(u) :
    \A b \in userAddresses(u) : addresses[a].seq <= addresses[b].seq

\* order.status = status; push a tracking entry unless the last one has it.
\* if (status === 'Delivered') order.deliveredAt = new Date().
applyStatus(o, status) ==
  [o EXCEPT !.status = status,
            !.tracking = IF o.tracking # <<>> /\ o.tracking[Len(o.tracking)] = status
                           THEN @ ELSE Append(@, status),
            !.deliveredAt = IF status = "Delivered" THEN TRUE ELSE @]

\* orderSchema.pre('save'): if (!this.orderNumber) the loop runs, else the
\* hook does nothing.
needsOrderNumberAlways(doc) == TRUE
needsOrderNumber(doc) == doc.orderNumber = ""

\* Schema validation, which save() runs before the pre('save') hook: the
\* enums of status and paymentStatus and the required total (written 0 only
\* in a record that lacks it).
validStored(doc) ==
  /\ doc.status \in validStatuses
  /\ doc.paymentStatus \in paymentStatusEnum
  /\ doc.total # 0

\* Where order.save() of a loaded document begins: at the hook's loop when
\* the document is valid and has no number, else at the save itself.
savePc(doc) ==
  IF validStored(doc) /\ needsOrderNumber(doc) THEN "preSaveCount" ELSE "save"

\* The update save() sends is rejected by the unique index when it sets an
\* order number that another document has taken since the hook looked.
updateRejects(orig, doc) ==
  /\ doc.orderNumber # orig.orderNumber
  /\ \E o \in orders : o.id # doc.id /\ o.orderNumber = doc.orderNumber

\* document.save() of a loaded document: $set of the paths whose value was
\* changed since loading or was defaulted on loading, $push of the tracking
\* entries pushed since loading.
\* deliveredAt is no path of orderSchema: the assignment makes a property of
\* the object in memory, which save() does not write.
saveWhole(cur, orig, doc) == doc
saveDelta(cur, orig, doc) ==
  [cur EXCEPT
     !.status = IF doc.status # orig.status THEN doc.status ELSE @,
     !.paymentStatus = IF doc.paymentStatus # orig.paymentStatus
                         THEN doc.paymentStatus ELSE @,
     !.subtotal = IF doc.subtotal # orig.subtotal THEN doc.subtotal ELSE @,
     !.total = IF doc.total # orig.total THEN doc.total ELSE @,
     !.deliveryFee = IF doc.deliveryFee # orig.deliveryFee
                       THEN doc.deliveryFee ELSE @,
     !.addressId = IF doc.addressId # orig.addressId THEN doc.addressId ELSE @,
     !.orderNumber = IF doc.orderNumber # orig.orderNumber
                       THEN doc.orderNumber ELSE @,
     !.tracking = @ \o SubSeq(doc.tracking, Len(orig.tracking) + 1, Len(doc.tracking))]

\* Entry of updateOrderStatus: admin check, status check, Order.findById
\* with its populate and the recalculations; with the address there, the
\* local status change as well, else the handler goes to Address.findOne.
updateOrderStatus(r, u, oid, status) ==
  LET rec == [IdleReq EXCEPT !.kind = "updateOrderStatus", !.user = u,
                             !.id = oid, !.arg = status]
      o == load(oid)
      fixed == recalculate(o)
      changed == applyStatus(fixed, status)
      out ==
        IF adminRequired(u) THEN Respond(rec, 403, "AdminRequired", NoDoc)
        ELSE IF status \notin validStatuses
          THEN Respond(rec, 400, "InvalidStatus", NoDoc)
        ELSE IF ~hasOrder(oid) THEN Respond(rec, 404, "OrderNotFound", NoDoc)
        ELSE IF addressMissing(o)
          THEN [rec EXCEPT !.pc = "findAddress", !.orig = findById(oid),
                           !.doc = fixed]
        ELSE [rec EXCEPT !.pc = savePc(changed), !.orig = findById(oid),
                         !.doc = changed]
  IN /\ Begin(r, out)
     /\ UNCHANGED <<stock, orders, nextOid, addresses, pushVars, carts, emitted>>

\* await Address.findOne({user: order.user._id}): 400 when the user has no
\* address now, else the first one becomes the order's and the status
\* change is made.
updateOrderStatusFindAddress(r) ==
  LET rec == req[r]
      changed == applyStatus([rec.doc EXCEPT !.addressId = firstAddress(rec.doc.user)],
                             rec.arg)
  IN /\ rec.kind = "updateOrderStatus" /\ rec.pc = "findAddress"
     /\ Step(r, IF userAddresses(rec.doc.user) = {}
                  THEN Respond(rec, 400, "NoValidAddress", NoDoc)
                  ELSE [rec EXCEPT !.pc = savePc(changed), !.doc = changed])
     /\ UNCHANGED <<stock, orders, nextOid, addresses, pushVars, carts, emitted, started, visitors>>

\* await order.save(), after the hook: the update of the stored document.
updateOrderStatusSave(r) ==
  LET rec == req[r]
  IN /\ rec.kind = "updateOrderStatus" /\ rec.pc = "save"
     /\ IF ~hasOrder(rec.doc.id)
          THEN /\ Step(r, failSave(rec, "DocumentNotFound"))
               /\ UNCHANGED orders
        ELSE IF updateRejects(rec.orig, rec.doc)
          THEN /\ Step(r, failSave(rec, "DuplicateKey"))
               /\ UNCHANGED orders
          ELSE LET cur == findById(rec.doc.id)
               IN /\ orders' = (orders \ {cur})
                               \cup {saveDelta(cur, rec.orig, rec.doc)}
                  /\ Step(r, Persisted([rec EXCEPT !.pc = IF rec.arg = "Packed"
                                                  THEN "notify" ELSE "populate"]))
     /\ UNCHANGED <<stock, nextOid, addresses, pushVars, carts, emitted, started, visitors>>

\* await createNotification(...) for Packed: resolves (ok) or rejects.
updateOrderStatusNotify(r, ok) ==
  LET rec == req[r]
  IN /\ rec.kind = "updateOrderStatus" /\ rec.pc = "notify"
     /\ Step(r, IF ok THEN [rec EXCEPT !.pc = "populate"]
                      ELSE Respond(rec, 400, "NotificationFailed", NoDoc))
     /\ UNCHANGED <<stock, orders, nextOid, addresses, pushVars, carts, emitted, started, visitors>>

\* Order.findById(order._id).populate(...), the two emits and the response.
\* With the order gone the admin emit carries null and the next line throws.
updateOrderStatusPopulate(r) ==
  LET rec == req[r]
  IN /\ rec.kind = "updateOrderStatus" /\ rec.pc = "populate"
     /\ IF ~hasOrder(rec.doc.id)
          THEN LET events == << Event("adminRoom", "orderStatusUpdate", NoDoc) >>
               IN /\ emitted' = emitted \o events
                  /\ Step(r, Sent(Respond(rec, 400, "TypeError", NoDoc), events))
          ELSE LET po == load(rec.doc.id)
                   events == << Event("adminRoom", "orderStatusUpdate", po),
                                Event(userRoom(po.user), "orderStatusUpdate", po) >>
               IN /\ emitted' = emitted \o events
                  /\ Step(r, Sent(Respond(rec, 200, "", po), events))
     /\ UNCHANGED <<stock, orders, nextOid, addresses, pushVars, carts, started, visitors>>

\* ------------------------------------------------------ verifyPaymentProof
\* order.paymentStatus = paymentStatus
setPaymentStatusTracked(o, ps) ==
  [o EXCEPT !.paymentStatus = ps, !.tracking = Append(@, ps)]
setPaymentStatus(o, ps) == [o EXCEPT !.paymentStatus = ps]

\* Entry of verifyPaymentProof: admin check, Order.findById, local change.
verifyPaymentProof(r, u, oid, ps) ==
  LET rec == [IdleReq EXCEPT !.kind = "verifyPaymentProof", !.user = u,
                             !.id = oid, !.arg = ps]
      o == load(oid)
      out ==
        IF adminRequired(u) THEN Respond(rec, 403, "AdminRequired", NoDoc)
        ELSE IF ~hasOrder(oid) THEN Respond(rec, 404, "OrderNotFound", NoDoc)
        ELSE [rec EXCEPT !.pc = savePc(setPaymentStatus(o, ps)),
                         !.orig = findById(oid),
                         !.doc = setPaymentStatus(o, ps)]
  IN /\ Begin(r, out)
     /\ UNCHANGED <<stock, orders, nextOid, addresses, pushVars, carts, emitted>>

\* await order.save() (schema validation first), the two emits, the response.
verifyPaymentProofSave(r) ==
  LET rec == req[r]
  IN /\ rec.kind = "verifyPaymentProof" /\ rec.pc = "save"
     /\ IF ~validStored(rec.doc)
          THEN /\ Step(r, Respond(rec, 400, "ValidationError", NoDoc))
               /\ UNCHANGED <<orders, emitted>>
        ELSE IF ~hasOrder(rec.doc.id)
          THEN /\ Step(r, Respond(rec, 400, "DocumentNotFound", NoDoc))
               /\ UNCHANGED <<orders, emitted>>
        ELSE IF updateRejects(rec.orig, rec.doc)
          THEN /\ Step(r, Respond(rec, 400, "DuplicateKey", NoDoc))
               /\ UNCHANGED <<orders, emitted>>
        ELSE LET cur == findById(rec.doc.id)
                 events == << Event("adminRoom", "orderStatusUpdate", rec.doc),
                              Event(userRoom(rec.doc.user), "orderStatusUpdate", rec.doc) >>
             IN /\ orders' = (orders \ {cur})
                               \cup {saveDelta(cur, rec.orig, rec.doc)}
                /\ emitted' = emitted \o events
                /\ Step(r, Persisted(Sent(Respond(rec, 200, "", rec.doc), events)))
     /\ UNCHANGED <<stock, nextOid, addresses, pushVars, carts, started, visitors>>

\* ------------------------------------- the bank-transfer order controller
\* The repository holds a second order controller, the one whose routes are
\* in routes/orderRoutes.js; its createOrder and updateOrderStatus follow.

\* cart.items.map(...): product and quantity from the cart, the price from
\* the populated product.
cartOrderItems(items) ==
  [k \in DOMAIN items |->
     Item(items[k].product, items[k].quantity, productPrice[items[k].product])]

\* new Order({...}) of this controller: tracking starts with Placed.
newBankOrder(oid, u, addr, items) ==
  [newOrder(oid, u, addr, items, "Bank Transfer") EXCEPT !.tracking = <<"Placed">>]

\* Entry of createOrder: the payment method, Cart.findOne with its populate,
\* new Order and the validation that save() begins with (addressId must be
\* there and be an ObjectId); no address lookup and no stock check.
createOrderBankTransfer(r, u, addr, pm) ==
  LET rec == [IdleReq EXCEPT !.kind = "createOrderBankTransfer", !.user = u,
                             !.address = addr, !.paymentMethod = pm]
      cart == carts[u]
      fails ==
        IF pm # "Bank Transfer" THEN "OnlyBankTransfer"
        ELSE IF ~cart.exists \/ cart.items = <<>> THEN "CartEmpty"
        ELSE IF \E k \in DOMAIN cart.items : cart.items[k].product \notin Products
          THEN "TypeError"
        ELSE IF addr = NoAddress \/ ~isValidObjectId(addr) THEN "ValidationError"
        ELSE ""
  IN /\ IF fails # ""
          THEN /\ Begin(r, Respond(rec, 400, fails, NoDoc))
               /\ UNCHANGED nextOid
          ELSE /\ Begin(r, [rec EXCEPT !.pc = "preSaveCount",
                                       !.items = cartOrderItems(cart.items),
                                       !.doc = newBankOrder(nextOid, u, addr,
                                                 cartOrderItems(cart.items))])
               /\ nextOid' = nextOid + 1
     /\ UNCHANGED <<stock, orders, addresses, pushVars, carts, emitted>>

\* await Cart.deleteOne({user}), then newOrder to the admins,
\* orderStatusUpdate to the owner and the 201 with the saved document.
createOrderBankTransferDeleteCart(r) ==
  LET rec == req[r]
      events == << Event("adminRoom", "newOrder", rec.doc),
                   Event(userRoom(rec.user), "orderStatusUpdate", rec.doc) >>
  IN /\ rec.kind = "createOrderBankTransfer" /\ rec.pc = "deleteCart"
     /\ carts' = [carts EXCEPT ![rec.user] = NoCart]
     /\ emitted' = emitted \o events
     /\ Step(r, Sent(Respond(rec, 201, "", rec.doc), events))
     /\ UNCHANGED <<stock, orders, nextOid, addresses, pushVars, started, visitors>>

\* order.status = status; order.tracking.push({ status }): no list of valid
\* statuses and a push whatever the last entry is.
setStatusAndPush(o, status) ==
  [o EXCEPT !.status = status, !.tracking = Append(@, status)]

\* Entry of this controller's updateOrderStatus: admin check, Order.findById,
\* the local change.
updateOrderStatusPlain(r, u, oid, status) ==
  LET rec == [IdleReq EXCEPT !.kind = "updateOrderStatusPlain", !.user = u,
                             !.id = oid, !.arg = status]
      changed == setStatusAndPush(load(oid), status)
      out ==
        IF adminRequired(u) THEN Respond(rec, 403, "AdminRequired", NoDoc)
        ELSE IF ~hasOrder(oid) THEN Respond(rec, 404, "OrderNotFound", NoDoc)
        ELSE [rec EXCEPT !.pc = savePc(changed), !.orig = findById(oid),
                         !.doc = changed]
  IN /\ Begin(r, out)
     /\ UNCHANGED <<stock, orders, nextOid, addresses, pushVars, carts, emitted>>

\* await order.save() (schema validation first), the two emits, the response.
updateOrderStatusPlainSave(r) ==
  LET rec == req[r]
  IN /\ rec.kind = "updateOrderStatusPlain" /\ rec.pc = "save"
     /\ IF ~validStored(rec.doc)
          THEN /\ Step(r, Respond(rec, 400, "ValidationError", NoDoc))
               /\ UNCHANGED <<orders, emitted>>
        ELSE IF ~hasOrder(rec.doc.id)
          THEN /\ Step(r, Respond(rec, 400, "DocumentNotFound", NoDoc))
               /\ UNCHANGED <<orders, emitted>>
        ELSE IF updateRejects(rec.orig, rec.doc)
          THEN /\ Step(r, Respond(rec, 400, "DuplicateKey", NoDoc))
               /\ UNCHANGED <<orders, emitted>>
        ELSE LET cur == findById(rec.doc.id)
                 events == << Event("adminRoom", "orderStatusUpdate", rec.doc),
                              Event(userRoom(rec.doc.user), "orderStatusUpdate", rec.doc) >>
             IN /\ orders' = (orders \ {cur})
                               \cup {saveDelta(cur, rec.orig, rec.doc)}
                /\ emitted' = emitted \o events
                /\ Step(r, Persisted(Sent(Respond(rec, 200, "", rec.doc), events)))
     /\ UNCHANGED <<stock, nextOid, addresses, pushVars, carts, started, visitors>>

\* ------------------------------------------------------------- deleteOrder
\* Order.findByIdAndDelete(id) on the collection.
removeOrder(os, o) == os \ {o}

\* Admin check, Order.findByIdAndDelete, the admin emit.  The document the
\* call returned stays with the request (orig).
deleteOrder(r, u, oid) ==
  LET rec == [IdleReq EXCEPT !.kind = "deleteOrder", !.user = u, !.id = oid]
  IN IF adminRequired(u)
       THEN /\ Begin(r, Respond(rec, 403, "AdminRequired", NoDoc))
            /\ UNCHANGED <<stock, orders, nextOid, addresses, pushVars, carts, emitted>>
     ELSE IF ~hasOrder(oid)
       THEN /\ Begin(r, Respond(rec, 404, "OrderNotFound", NoDoc))
            /\ UNCHANGED <<stock, orders, nextOid, addresses, pushVars, carts, emitted>>
     ELSE LET events == << Event("adminRoom", "orderStatusUpdate", findById(oid)) >>
          IN
          /\ Begin(r, [Persisted(Sent(Respond(rec, 200, "", NoDoc), events))
                         EXCEPT !.orig = findById(oid)])
          /\ orders' = removeOrder(orders, findById(oid))
          /\ emitted' = emitted \o events
          /\ UNCHANGED <<stock, nextOid, addresses, pushVars, carts>>

\* ----------------------------------------------------------- deleteAddress
\* The id check, then Address.findOneAndDelete({_id: id, user: req.user._id}).
deleteAddress(r, u, a) ==
  LET rec == [IdleReq EXCEPT !.kind = "deleteAddress", !.user = u, !.address = a]
      mine == a \in DOMAIN addresses /\ addresses[a].user = u
  IN /\ Begin(r, IF ~isValidObjectId(a)
                   THEN Respond(rec, 400, "InvalidAddressId", NoDoc)
                 ELSE IF ~mine THEN Respond(rec, 404, "AddressNotFound", NoDoc)
                 ELSE Respond(rec, 200, "", NoDoc))
     /\ addresses' = IF isValidObjectId(a) /\ mine
                        THEN [b \in DOMAIN addresses \ {a} |-> addresses[b]]
                        ELSE addresses
     /\ UNCHANGED <<stock, orders, nextOid, pushVars, carts, emitted>>

\* ------------------------------------------------ addAddress, updateAddress
\* What a body gives for an address; isDefault is true, false or not given.
AddressInput(label, city, st, co, phone, def) ==
  [label |-> label, street |-> "1 Road", city |-> city, state |-> st,
   country |-> co, phone |-> phone, isDefault |-> def]

\* The white space String.prototype.trim removes, as far as a string of this
\* language can hold it: tab, line feed, line tabulation (U+000B), form
\* feed, carriage return, space, no-break space (U+00A0), ogham space mark
\* (U+1680) and the byte order mark (U+FEFF).  The others (U+2000 to U+200A,
\* U+2028, U+2029, U+202F, U+205F, U+3000) cannot be written in a string
\* here, so no string of the model holds them.
LineTabulation == ""
NoBreakSpace == " "
OghamSpaceMark == " "
ByteOrderMark == "﻿"
WhiteSpace ==
  {"\t", "\n", LineTabulation, "\f", "\r", " ", NoBreakSpace, OghamSpaceMark,
   ByteOrderMark}
RECURSIVE trimStart(_)
trimStart(t) ==
  IF t # "" /\ SubSeq(t, 1, 1) \in WhiteSpace THEN trimStart(SubSeq(t, 2, Len(t))) ELSE t
RECURSIVE trimEnd(_)
trimEnd(t) ==
  IF t # "" /\ SubSeq(t, Len(t), Len(t)) \in WhiteSpace
    THEN trimEnd(SubSeq(t, 1, Len(t) - 1)) ELSE t
\* String.prototype.trim
trim(t) == trimEnd(trimStart(t))

\* /^\+?[1-9]\d{1,14}$/.test(phone)
Digits == {"0", "1", "2", "3", "4", "5", "6", "7", "8", "9"}
phoneRegexTest(phone) ==
  LET d == IF phone # "" /\ SubSeq(phone, 1, 1) = "+"
             THEN SubSeq(phone, 2, Len(phone)) ELSE phone
  IN /\ Len(d) >= 2 /\ Len(d) <= 15
     /\ SubSeq(d, 1, 1) \in Digits \ {"0"}
     /\ \A i \in 2 .. Len(d) : SubSeq(d, i, i) \in Digits

\* if (!label || !street || !city || !state || !country || !phone)
fieldsMissing(in) ==
  \/ in.label = "" \/ in.street = "" \/ in.city = ""
  \/ in.state = "" \/ in.country = "" \/ in.phone = ""

\* The fields the handlers assign, trimmed.
trimmedInto(doc, in) ==
  [doc EXCEPT !.label = trim(in.label), !.street = trim(in.street),
              !.city = trim(in.city), !.state = trim(in.state),
              !.country = trim(in.country), !.phone = trim(in.phone)]

\* addressSchema's required strings: an empty string does not pass.
addressValidates(doc) ==
  /\ doc.label # "" /\ doc.street # "" /\ doc.city # ""
  /\ doc.state # "" /\ doc.country # "" /\ doc.phone # ""

\* Address.updateMany({user, isDefault: true}, {isDefault: false})
unsetDefaults(as, u) ==
  [a \in DOMAIN as |-> IF as[a].user = u THEN [as[a] EXCEPT !.isDefault = FALSE]
                                        ELSE as[a]]

\* The insert of a new address document: it comes last in the collection.
nextSeq(as) ==
  IF DOMAIN as = {} THEN 1
  ELSE 1 + (CHOOSE k \in {as[a].seq : a \in DOMAIN as} :
              \A a \in DOMAIN as : as[a].seq <= k)
insertAddress(as, id, doc) ==
  [a \in DOMAIN as \cup {id} |->
     IF a = id THEN [doc EXCEPT !.seq = nextSeq(as)] ELSE as[a]]

\* The _id of the document the n-th request makes.
newAddressId(n) == "a" \o ToString(3 + n)

\* Entry of addAddress: the checks of the body, new Address and the first
\* store call, which is updateMany when isDefault is set and save() when not.
addAddress(r, u, in) ==
  LET rec == [IdleReq EXCEPT !.kind = "addAddress", !.user = u,
                             !.address = newAddressId(started + 1)]
      doc == [trimmedInto(NoAddressDoc, in) EXCEPT !.user = u,
                                                   !.isDefault = in.isDefault = "true"]
  IN /\ IF fieldsMissing(in)
          THEN /\ Begin(r, Respond(rec, 400, "FieldsRequired", NoDoc))
               /\ UNCHANGED addresses
        ELSE IF ~phoneRegexTest(in.phone)
          THEN /\ Begin(r, Respond(rec, 400, "InvalidPhone", NoDoc))
               /\ UNCHANGED addresses
        ELSE IF in.isDefault = "true"
          THEN /\ Begin(r, [rec EXCEPT !.pc = "saveAddress", !.addrDoc = doc])
               /\ addresses' = unsetDefaults(addresses, u)
        ELSE IF ~addressValidates(doc)
          THEN /\ Begin(r, Respond(rec, 400, "ValidationError", NoDoc))
               /\ UNCHANGED addresses
        ELSE /\ Begin(r, Respond(rec, 201, "", NoDoc))
             /\ addresses' = insertAddress(addresses, rec.address, doc)
     /\ UNCHANGED <<stock, orders, nextOid, pushVars, carts, emitted>>

\* await address.save() after the updateMany: validation, then the insert.
addAddressSave(r) ==
  LET rec == req[r]
  IN /\ rec.kind = "addAddress" /\ rec.pc = "saveAddress"
     /\ IF ~addressValidates(rec.addrDoc)
          THEN /\ Step(r, Respond(rec, 400, "ValidationError", NoDoc))
               /\ UNCHANGED addresses
          ELSE /\ Step(r, Respond(rec, 201, "", NoDoc))
               /\ addresses' = insertAddress(addresses, rec.address, rec.addrDoc)
     /\ UNCHANGED <<stock, orders, nextOid, pushVars, carts, emitted, started, visitors>>

\* Entry of updateAddress: the id check, the checks of the body,
\* Address.findOne({_id, user}) and the assignments up to the next store call.
updateAddress(r, u, a, in) ==
  LET rec == [IdleReq EXCEPT !.kind = "updateAddress", !.user = u, !.address = a]
      mine == a \in DOMAIN addresses /\ addresses[a].user = u
      changed == trimmedInto(addresses[a], in)
      out ==
        IF ~isValidObjectId(a) THEN Respond(rec, 400, "InvalidAddressId", NoDoc)
        ELSE IF fieldsMissing(in) THEN Respond(rec, 400, "FieldsRequired", NoDoc)
        ELSE IF ~phoneRegexTest(in.phone)
          THEN Respond(rec, 400, "InvalidPhone", NoDoc)
        ELSE IF ~mine THEN Respond(rec, 404, "AddressNotFound", NoDoc)
        ELSE IF in.isDefault = "true"
          THEN [rec EXCEPT !.pc = "unsetDefaults", !.addrOrig = addresses[a],
                           !.addrDoc = changed]
        ELSE [rec EXCEPT !.pc = "saveAddress", !.addrOrig = addresses[a],
                         !.addrDoc = IF in.isDefault = "false"
                                       THEN [changed EXCEPT !.isDefault = FALSE]
                                       ELSE changed]
  IN /\ Begin(r, out)
     /\ UNCHANGED <<stock, orders, nextOid, addresses, pushVars, carts, emitted>>

\* await Address.updateMany(...), then address.isDefault = !!isDefault.
updateAddressUnsetDefaults(r) ==
  LET rec == req[r]
  IN /\ rec.kind = "updateAddress" /\ rec.pc = "unsetDefaults"
     /\ addresses' = unsetDefaults(addresses, rec.user)
     /\ Step(r, [rec EXCEPT !.pc = "saveAddress", !.addrDoc.isDefault = TRUE])
     /\ UNCHANGED <<stock, orders, nextOid, pushVars, carts, emitted, started, visitors>>

\* address.save() of the loaded document: the paths whose value was changed
\* since loading are written.
saveAddressDelta(cur, orig, doc) ==
  [cur EXCEPT
     !.label = IF doc.label # orig.label THEN doc.label ELSE @,
     !.street = IF doc.street # orig.street THEN doc.street ELSE @,
     !.city = IF doc.city # orig.city THEN doc.city ELSE @,
     !.state = IF doc.state # orig.state THEN doc.state ELSE @,
     !.country = IF doc.country # orig.country THEN doc.country ELSE @,
     !.phone = IF doc.phone # orig.phone THEN doc.phone ELSE @,
     !.isDefault = IF doc.isDefault # orig.isDefault THEN doc.isDefault ELSE @]

\* await address.save(): validation, then the update, or with nothing
\* changed the check that the document is still there; either is rejected for
\* a document deleted since.
updateAddressSave(r) ==
  LET rec == req[r]
      a == rec.address
      out == IF ~addressValidates(rec.addrDoc) THEN "ValidationError"
             ELSE IF a \notin DOMAIN addresses THEN "DocumentNotFound"
             ELSE IF rec.addrDoc = rec.addrOrig THEN ""
             ELSE "write"
  IN /\ rec.kind = "updateAddress" /\ rec.pc = "saveAddress"
     /\ Step(r, IF out \in {"", "write"} THEN Respond(rec, 200, "", NoDoc)
                                          ELSE Respond(rec, 400, out, NoDoc))
     /\ addresses' = IF out = "write"
                        THEN [addresses EXCEPT
                                ![a] = saveAddressDelta(@, rec.addrOrig, rec.addrDoc)]
                        ELSE addresses
     /\ UNCHANGED <<stock, orders, nextOid, pushVars, carts, emitted, started, visitors>>

\* ------------------------------------------------------ push subscriptions
\* PushSubscription documents in insertion order: [userId, subscription].
Endpoints == {"e1", "e2"}
Subscription(u, e) == [userId |-> u, subscription |-> e]
Lowest(S) == CHOOSE k \in S : \A j \in S : k <= j
matchingNone(u) == {}
matching(u) == {k \in DOMAIN subscriptions : subscriptions[k].userId = u}

\* POST /api/push/subscribe: updateOne({userId}, {$set: {subscription}},
\* {upsert: true}).  With a document of the user the store updates the first
\* one; with none it goes on to insert, and as the collection has no unique
\* index on userId two upserts that both found none both insert.
subscribe(r, u, e) ==
  LET rec == [IdleReq EXCEPT !.kind = "subscribe", !.user = u, !.arg = e]
  IN IF e = ""
       THEN /\ Begin(r, Respond(rec, 400, "SubscriptionRequired", NoDoc))
            /\ UNCHANGED <<stock, orders, nextOid, addresses, pushVars, carts,
                           emitted>>
     ELSE IF matching(u) # {}
       THEN /\ Begin(r, Respond(rec, 201, "", NoDoc))
            /\ subscriptions' =
                 [subscriptions EXCEPT ![Lowest(matching(u))] = Subscription(u, e)]
            /\ UNCHANGED <<stock, orders, nextOid, addresses, pushLog, sockets, carts,
                           emitted>>
     ELSE /\ Begin(r, [rec EXCEPT !.pc = "insert"])
          /\ UNCHANGED <<stock, orders, nextOid, addresses, pushVars, carts,
                         emitted>>

\* The insert of an upsert that matched nothing.
subscribeInsert(r) ==
  LET rec == req[r]
  IN /\ rec.kind = "subscribe" /\ rec.pc = "insert"
     /\ subscriptions' = Append(subscriptions, Subscription(rec.user, rec.arg))
     /\ Step(r, Respond(rec, 201, "", NoDoc))
     /\ UNCHANGED <<stock, orders, nextOid, addresses, pushLog, sockets, carts, emitted,
                    started, visitors>>

\* POST /push-subscription of routes/bankRoutes.js: the same upsert for
\* req.user._id with the subscription of the body, answered with 200.
pushSubscription(r, u, e) ==
  LET rec == [IdleReq EXCEPT !.kind = "pushSubscription", !.user = u, !.arg = e]
  IN IF e = ""
       THEN /\ Begin(r, Respond(rec, 400, "SubscriptionRequired", NoDoc))
            /\ UNCHANGED <<stock, orders, nextOid, addresses, pushVars, carts,
                           emitted>>
     ELSE IF matching(u) # {}
       THEN /\ Begin(r, Respond(rec, 200, "", NoDoc))
            /\ subscriptions' =
                 [subscriptions EXCEPT ![Lowest(matching(u))] = Subscription(u, e)]
            /\ UNCHANGED <<stock, orders, nextOid, addresses, pushLog, sockets, carts,
                           emitted>>
     ELSE /\ Begin(r, [rec EXCEPT !.pc = "insert"])
          /\ UNCHANGED <<stock, orders, nextOid, addresses, pushVars, carts,
                         emitted>>

pushSubscriptionInsert(r) ==
  LET rec == req[r]
  IN /\ rec.kind = "pushSubscription" /\ rec.pc = "insert"
     /\ subscriptions' = Append(subscriptions, Subscription(rec.user, rec.arg))
     /\ Step(r, Respond(rec, 200, "", NoDoc))
     /\ UNCHANGED <<stock, orders, nextOid, addresses, pushLog, sockets, carts, emitted,
                    started, visitors>>

\* PushSubscription.deleteOne({subscription}): the first document whose
\* subscription equals the given one goes, whoever its user is.
deleteOne(seq, e) ==
  LET S == {k \in DOMAIN seq : seq[k].subscription = e}
  IN IF S = {} THEN seq
     ELSE [k \in 1 .. (Len(seq) - 1) |-> IF k < Lowest(S) THEN seq[k] ELSE seq[k + 1]]

\* ------------------------------------- socket.on('orderStatusUpdate', ...)
\* What a socket client sends: an object with _id, user._id and status, each
\* of which may be missing (0, "").
Payload(oid, u, st) == [NoDoc EXCEPT !.id = oid, !.user = u, !.status = st]

\* The emit to adminRoom and, for an order object with a user, to the
\* user's room.
rebroadcast(doc) ==
  << Event("adminRoom", "orderStatusUpdate", doc) >>
    \o (IF doc.user # "" THEN << Event(userRoom(doc.user), "orderStatusUpdate", doc) >>
                         ELSE <<>>)

\* Entry of the handler: an object without _id is dropped; one without
\* user._id is read from the store first; else it is passed on as it came.
onOrderStatusUpdate(r, order) ==
  LET rec == [IdleReq EXCEPT !.kind = "onOrderStatusUpdate", !.id = order.id,
                             !.doc = order]
  IN IF order.id = 0
       THEN /\ Begin(r, Respond(rec, 0, "InvalidOrder", NoDoc))
            /\ UNCHANGED <<stock, orders, nextOid, addresses, pushVars, carts,
                           emitted>>
     ELSE IF order.user = ""
       THEN /\ Begin(r, [rec EXCEPT !.pc = "fetch"])
            /\ UNCHANGED <<stock, orders, nextOid, addresses, pushVars, carts,
                           emitted>>
     ELSE /\ Begin(r, Sent([rec EXCEPT !.pc = "find"], rebroadcast(order)))
          /\ emitted' = emitted \o rebroadcast(order)
          /\ UNCHANGED <<stock, orders, nextOid, addresses, pushVars, carts>>

\* await Order.findById(order._id).populate('user'), then the emits.
onOrderStatusUpdateFetch(r) ==
  LET rec == req[r]
  IN /\ rec.kind = "onOrderStatusUpdate" /\ rec.pc = "fetch"
     /\ IF ~hasOrder(rec.id)
          THEN /\ Step(r, Respond(rec, 0, "OrderNotFound", NoDoc))
               /\ UNCHANGED emitted
          ELSE LET po == load(rec.id)
               IN /\ Step(r, Sent([rec EXCEPT !.pc = "find", !.doc = po],
                                  rebroadcast(po)))
                  /\ emitted' = emitted \o rebroadcast(po)
     /\ UNCHANGED <<stock, orders, nextOid, addresses, pushVars, carts, started, visitors>>

\* Where the push loop goes after subscription i: the next one, or the end.
nextSubscription(rec) ==
  IF rec.i < Len(rec.found) THEN [rec EXCEPT !.pc = "send", !.i = @ + 1]
                            ELSE Respond(rec, 0, "", NoDoc)

\* await PushSubscription.find({userId}): the subscriptions to loop over.
onOrderStatusUpdateFind(r) ==
  LET rec == req[r]
      docs == SelectSeq(subscriptions, LAMBDA d : d.userId = rec.doc.user)
      list == [k \in DOMAIN docs |-> docs[k].subscription]
  IN /\ rec.kind = "onOrderStatusUpdate" /\ rec.pc = "find"
     /\ Step(r, nextSubscription([rec EXCEPT !.found = list, !.i = 0]))
     /\ UNCHANGED <<stock, orders, nextOid, addresses, pushVars, carts, emitted,
                    started, visitors>>

\* await webPush.sendNotification(subscription, payload): it resolves (ok) or
\* rejects, and then the catch block is entered.
onOrderStatusUpdateSend(r, ok) ==
  LET rec == req[r]
  IN /\ rec.kind = "onOrderStatusUpdate" /\ rec.pc = "send"
     /\ pushLog' = Append(pushLog, [n |-> rec.n, userId |-> rec.doc.user,
                                     subscription |-> rec.found[rec.i], ok |-> ok])
     /\ Step(r, IF ok THEN nextSubscription(rec) ELSE [rec EXCEPT !.pc = "purge"])
     /\ UNCHANGED <<stock, orders, nextOid, addresses, subscriptions, sockets, carts,
                    emitted, started, visitors>>

\* await PushSubscription.deleteOne({ subscription }) in the catch block.
onOrderStatusUpdatePurge(r) ==
  LET rec == req[r]
  IN /\ rec.kind = "onOrderStatusUpdate" /\ rec.pc = "purge"
     /\ subscriptions' = deleteOne(subscriptions, rec.found[rec.i])
     /\ Step(r, nextSubscription(rec))
     /\ UNCHANGED <<stock, orders, nextOid, addresses, pushLog, sockets, carts, emitted,
                    started, visitors>>

\* ------------------------------------------------------ POST /api/push/send
\* The handler answers once every send it started has settled.
settled(rec) ==
  IF \A k \in DOMAIN rec.tasks : rec.tasks[k] = "done"
    THEN Respond(rec, 200, "", NoDoc) ELSE rec

\* Entry: PushSubscription.find(userId ? {userId} : {}); 404 with none, else
\* a send is started for each subscription found, all at once.
pushSend(r, u, userId) ==
  LET rec == [IdleReq EXCEPT !.kind = "pushSend", !.user = u, !.arg = userId]
      docs == IF userId = "" THEN subscriptions
              ELSE SelectSeq(subscriptions, LAMBDA d : d.userId = userId)
      list == [k \in DOMAIN docs |-> docs[k].subscription]
  IN /\ Begin(r, IF list = <<>>
                   THEN Respond(rec, 404, "NoSubscriptions", NoDoc)
                   ELSE [rec EXCEPT !.pc = "sending", !.found = list,
                                    !.tasks = [k \in DOMAIN list |-> "send"]])
     /\ UNCHANGED <<stock, orders, nextOid, addresses, pushVars, carts, emitted>>

\* await webPush.sendNotification(subscription, payload) of the k-th send
\* settles: resolved (ok), or rejected and the catch block is entered.
pushSendSettle(r, k, ok) ==
  LET rec == req[r]
  IN /\ rec.kind = "pushSend" /\ rec.pc = "sending"
     /\ k \in DOMAIN rec.tasks /\ rec.tasks[k] = "send"
     /\ pushLog' = Append(pushLog, [n |-> rec.n, userId |-> rec.arg,
                                     subscription |-> rec.found[k], ok |-> ok])
     /\ Step(r, settled([rec EXCEPT !.tasks[k] = IF ok THEN "done" ELSE "purge"]))
     /\ UNCHANGED <<stock, orders, nextOid, addresses, subscriptions, sockets, carts,
                    emitted, started, visitors>>

\* await PushSubscription.deleteOne({ subscription }) in the k-th catch block.
pushSendPurge(r, k) ==
  LET rec == req[r]
  IN /\ rec.kind = "pushSend" /\ rec.pc = "sending"
     /\ k \in DOMAIN rec.tasks /\ rec.tasks[k] = "purge"
     /\ subscriptions' = deleteOne(subscriptions, rec.found[k])
     /\ Step(r, settled([rec EXCEPT !.tasks[k] = "done"]))
     /\ UNCHANGED <<stock, orders, nextOid, addresses, pushLog, sockets, carts, emitted,
                    started, visitors>>

\* ------------------------- socket.on('categoryUpdate' / 'productUpdate')
\* io.to('adminRoom').emit(event), whoever the connected socket is.
onCatalogueUpdate(r, s, event) ==
  LET rec == [IdleReq EXCEPT !.kind = event, !.socket = s]
      events == << Event("adminRoom", event, NoDoc) >>
  IN /\ sockets[s].connected
     /\ Begin(r, Sent(Respond(rec, 0, "", NoDoc), events))
     /\ emitted' = emitted \o events
     /\ UNCHANGED <<stock, orders, nextOid, addresses, pushVars, carts>>
onCategoryUpdate(r, s) == onCatalogueUpdate(r, s, "categoryUpdate")
onProductUpdate(r, s) == onCatalogueUpdate(r, s, "productUpdate")

\* ------------------------------------------ socket.on('joinAdmin' / 'joinUser')
\* The JWTs signed with JWT_SECRET and the user id each was signed for; u0
\* is a user who has been removed since.
SignedFor == [jwtAdmin |-> "admin", jwtU1 |-> "u1", jwtGone |-> "u0"]

\* token.replace('Bearer ', ''): the first occurrence of the text goes,
\* wherever in the token it is.
stripBearer(t) ==
  LET at == {i \in 1 .. (Len(t) - 6) : SubSeq(t, i, i + 6) = "Bearer "}
  IN IF at = {} THEN t
     ELSE SubSeq(t, 1, Lowest(at) - 1) \o SubSeq(t, Lowest(at) + 7, Len(t))

\* jwt.verify(token, secret): the decoded id; "" stands for the throw.
jwtVerify(j) == IF j \in DOMAIN SignedFor THEN SignedFor[j] ELSE ""

\* What the client sends with the event: a token, or nothing at all.
JoinArg(given, token) == [given |-> given, token |-> token]

\* socket.disconnect() leaves every room; socket.join(room) adds the socket
\* to the room.
disconnect(ss, s) == [ss EXCEPT ![s].connected = FALSE, ![s].rooms = {}]
join(ss, s, room) == [ss EXCEPT ![s].rooms = @ \cup {room}]
noted(ss, s, event, arg) ==
  [ss EXCEPT ![s].joins = @ \cup {[event |-> event, arg |-> arg]}]

\* Entry of a join handler whose token is at hand: replace and verify throw
\* inside the try block (no token, bad token) and the catch disconnects;
\* else the handler awaits User.findById(decoded.id).
joinVerify(r, s, event, arg) ==
  LET rec == [IdleReq EXCEPT !.kind = event, !.socket = s, !.arg = arg.token]
      id == IF arg.given THEN jwtVerify(stripBearer(arg.token)) ELSE ""
  IN IF id = ""
       THEN /\ Begin(r, Respond(rec, 0, "JoinFailed", NoDoc))
            /\ sockets' = disconnect(noted(sockets, s, event, arg), s)
       ELSE /\ Begin(r, [rec EXCEPT !.pc = "findUser", !.user = id])
            /\ sockets' = noted(sockets, s, event, arg)

\* socket.on('joinAdmin', async (token) => ...)
joinAdmin(r, s, arg) ==
  /\ sockets[s].connected
  /\ joinVerify(r, s, "joinAdmin", arg)
  /\ UNCHANGED <<stock, orders, nextOid, addresses, subscriptions, pushLog,
                 carts, emitted>>

\* What an unhandled promise rejection does to the process: a warning, or
\* the process exits and every connection with it.
UnhandledRejectionOutcomes == {"warn", "exit"}

\* socket.on('joinUser', async ({ token }) => ...): with no argument the
\* destructuring of the parameter throws before the try block is entered,
\* and the promise the handler returns is rejected with nobody to catch it.
\* An exit takes the handlers that are waiting with it.
joinUser(r, s, arg, outcome) ==
  LET rec == [IdleReq EXCEPT !.kind = "joinUser", !.socket = s, !.arg = arg.token]
  IN /\ sockets[s].connected
     /\ IF arg.given
          THEN joinVerify(r, s, "joinUser", arg)
        ELSE IF outcome = "warn"
          THEN /\ Begin(r, Respond(rec, 0, "UnhandledRejection", NoDoc))
               /\ sockets' = noted(sockets, s, "joinUser", arg)
        ELSE /\ Free(r)
             /\ \A q \in Slots : Free(q) => r <= q
             /\ started < MaxRequests
             /\ started' = started + 1
             /\ req' = [q \in Slots |->
                         IF q = r
                           THEN [Respond(rec, 0, "ProcessExit", NoDoc) EXCEPT
                                   !.n = started + 1, !.quiet = OthersQuiet(r),
                                   !.stock0 = stock]
                         ELSE IF req[q].pc \in {"idle", "done"}
                           THEN [req[q] EXCEPT !.visitor = FALSE]
                         ELSE IF Arrived(q) THEN IdleReq
                         ELSE [Respond(req[q], 0, "ProcessExit", NoDoc) EXCEPT
                                 !.visitor = FALSE]]
             /\ sockets' = [t \in SocketIds |->
                             disconnect(noted(sockets, s, "joinUser", arg), t)[t]]
     /\ UNCHANGED <<stock, orders, nextOid, addresses, subscriptions, pushLog,
                    carts, emitted, visitors>>

\* After await User.findById(decoded.id): an admin joins adminRoom, a user
\* joins the room of their id; anyone else is disconnected.
joinFindUser(r) ==
  LET rec == req[r]
      s == rec.socket
      found == rec.user \in Users
      room == IF rec.kind = "joinAdmin" THEN "adminRoom" ELSE userRoom(rec.user)
      allowed == IF rec.kind = "joinAdmin" THEN found /\ isAdmin(rec.user) ELSE found
  IN /\ rec.kind \in {"joinAdmin", "joinUser"} /\ rec.pc = "findUser"
     /\ sockets' = IF allowed THEN join(sockets, s, room) ELSE disconnect(sockets, s)
     /\ Step(r, Respond(rec, 0, IF allowed THEN "" ELSE "JoinFailed", NoDoc))
     /\ UNCHANGED <<stock, orders, nextOid, addresses, subscriptions, pushLog,
                    carts, emitted, started, visitors>>

\* The middleware after await VisitorLocation.findOne(), before or after the
\* handler's first step and any of its later ones: the newest location goes
\* to adminRoom; a lookup that rejects is logged and nothing else.
newVisitorLookup(r, ok) ==
  /\ req[r].visitor
  /\ emitted' = IF ok /\ visitors # {}
                  THEN Append(emitted, VisitorEvent(latestVisitor(visitors)))
                ELSE emitted
  /\ Step(r, [req[r] EXCEPT !.visitor = FALSE])
  /\ UNCHANGED <<stock, orders, nextOid, addresses, pushVars, carts, started, visitors>>

\* ------------------------------------------------------------------- reads
\* The owner-or-admin check of getOrder and trackOrder.
mayReadAnything(u, o) == TRUE
mayRead(u, o) == isAdmin(u) \/ o.user = u

readResponse(rec, u, found, o) ==
  IF ~found THEN Respond(rec, 404, "OrderNotFound", NoDoc)
  ELSE IF ~mayRead(u, o) THEN Respond(rec, 403, "Unauthorized", NoDoc)
  ELSE Respond(rec, 200, "", o)

getOrder(r, u, oid) ==
  LET rec == [IdleReq EXCEPT !.kind = "getOrder", !.user = u, !.id = oid]
  IN /\ Begin(r, readResponse(rec, u, hasOrder(oid), load(oid)))
     /\ UNCHANGED <<stock, orders, nextOid, addresses, pushVars, carts, emitted>>

trackOrder(r, u, number) ==
  LET rec == [IdleReq EXCEPT !.kind = "trackOrder", !.user = u, !.arg = number]
  IN /\ Begin(r, readResponse(rec, u, hasOrderNumber(number),
                                 hydrate(findOneByNumber(number))))
     /\ UNCHANGED <<stock, orders, nextOid, addresses, pushVars, carts, emitted>>

\* ---------------------------------------------------------------- getOrders
\* req.query of getOrders.  A filter that is "" is not given; count is the
\* truthiness of the count parameter.
Query(status, orderNumber, period, page, limit, count) ==
  [status |-> status, orderNumber |-> orderNumber, period |-> period,
   page |-> page, limit |-> limit, count |-> count]

\* ------------------------------------------- { $regex: ..., $options: 'i' }
\* The store hands the pattern to its regular-expression engine, which is no
\* part of the sources.  What the engine answers is worked out here for the
\* patterns of a fragment in which every construct has one meaning and no
\* limit of the engine is near (regexStatus "plain"), and for patterns with
\* an error that no reading of the rest can mend ("refused").  For every
\* other pattern, and for every text outside the printable characters, the
\* answer is left open: the engine may refuse the pattern or match any of
\* the texts (engineAnswers).
\* The fragment: literals, ".", "^", "$", "|", groups "(...)" and "(?:...)",
\* look-ahead "(?=...)" and "(?!...)", classes "[...]" with ranges and
\* negation, the escapes \d \w \s \D \W \S \b \B and escaped punctuation,
\* and the quantifiers "*", "+", "?", "{n}", "{n,}", "{n,m}", greedy or lazy, at most MaxQuantifiers of them, none on an assertion and
\* none on a group that holds a quantifier, a "|" or a group.
MaxPatternLen == 32
MaxTextLen == 16
MaxQuantifiers == 3
MaxCountDigits == 2

\* The character at index i of s, "" outside s.
Ch(s, i) == IF i >= 1 /\ i <= Len(s) THEN SubSeq(s, i, i) ELSE ""

\* The printable characters in the order of their codes (the grave accent,
\* which a string of this language cannot hold, left out).
Ascii ==
  " !\"#$%&'()*+,-./0123456789:;<=>?@ABCDEFGHIJKLMNOPQRSTUVWXYZ[\\]^_abcdefghijklmnopqrstuvwxyz{|}~"
AsciiChars == {Ch(Ascii, k) : k \in 1 .. Len(Ascii)}
CodeOf == [c \in AsciiChars |-> CHOOSE k \in 1 .. Len(Ascii) : Ch(Ascii, k) = c]
charCode(c) == IF c \in AsciiChars THEN CodeOf[c] ELSE 0
UpperCase == {Ch(Ascii, k) : k \in CodeOf["A"] .. CodeOf["Z"]}
LowerCase == {Ch(Ascii, k) : k \in CodeOf["a"] .. CodeOf["z"]}
isUpper(c) == c \in UpperCase
isLower(c) == c \in LowerCase
isDigit(c) == c \in Digits
isAlnum(c) == isUpper(c) \/ isLower(c) \/ isDigit(c)
\* Case folding of the letters A to Z and a to z, the only printable
\* characters that have another case.
lowerChar(c) == IF isUpper(c) THEN Ch(Ascii, CodeOf[c] - CodeOf["A"] + CodeOf["a"]) ELSE c
upperChar(c) == IF isLower(c) THEN Ch(Ascii, CodeOf[c] - CodeOf["a"] + CodeOf["A"]) ELSE c

\* \w and \s of the engine without its Unicode-property option.
wordChar(c) == isAlnum(c) \/ c = "_"
spaceChar(c) == c \in {" ", "\t", "\n", LineTabulation, "\f", "\r"}

\* \d \w \s and their complements; the word-boundary assertions.
isSetEscape(x) == x \in {"d", "w", "s", "D", "W", "S"}
isAssertEscape(x) == x \in {"b", "B"}
setHas(x, c) ==
  CASE x = "d" -> isDigit(c) [] x = "D" -> ~isDigit(c)
    [] x = "w" -> wordChar(c) [] x = "W" -> ~wordChar(c)
    [] x = "s" -> spaceChar(c) [] x = "S" -> ~spaceChar(c)
    [] OTHER -> FALSE
\* A backslash before x makes x a literal: x is printable and neither a
\* letter nor a digit.
isEscapedLiteral(x) == x \in AsciiChars /\ ~isAlnum(x)

\* The last index of the run of digits that starts at j (j - 1 for none) and
\* the number the digits p[j .. k] spell.
RECURSIVE digitsEnd(_, _)
digitsEnd(p, j) ==
  IF j <= Len(p) /\ isDigit(Ch(p, j)) THEN digitsEnd(p, j + 1) ELSE j - 1
RECURSIVE digitsValue(_, _, _)
digitsValue(p, j, k) ==
  IF k < j THEN 0 ELSE digitsValue(p, j, k - 1) * 10 + (charCode(Ch(p, k)) - charCode("0"))

\* The quantifier that starts at q: least and greatest count (-1 for no
\* limit) and its last index, a "?" that makes it lazy included; one time and
\* q - 1 when there is none.  "{" is a quantifier only as {n}, {n,} or {n,m}
\* with counts of at most MaxCountDigits digits, the least first.
NoQuant(q) == [lo |-> 1, hi |-> 1, end |-> q - 1]
brace(p, q) ==
  LET a == digitsEnd(p, q + 1)
      b == digitsEnd(p, a + 2)
      lo == digitsValue(p, q + 1, a)
      hi == digitsValue(p, a + 2, b)
  IN IF a < q + 1 \/ a - q > MaxCountDigits THEN NoQuant(q)
     ELSE IF Ch(p, a + 1) = "}" THEN [lo |-> lo, hi |-> lo, end |-> a + 1]
     ELSE IF Ch(p, a + 1) # "," \/ Ch(p, b + 1) # "}" THEN NoQuant(q)
     ELSE IF b < a + 2 THEN [lo |-> lo, hi |-> -1, end |-> b + 1]
     ELSE IF b - (a + 1) > MaxCountDigits \/ lo > hi THEN NoQuant(q)
     ELSE [lo |-> lo, hi |-> hi, end |-> b + 1]
quant(p, q) ==
  LET c == Ch(p, q)
      m == IF c = "*" THEN [lo |-> 0, hi |-> -1, end |-> q]
           ELSE IF c = "+" THEN [lo |-> 1, hi |-> -1, end |-> q]
           ELSE IF c = "?" THEN [lo |-> 0, hi |-> 1, end |-> q]
           ELSE IF c = "{" THEN brace(p, q)
           ELSE NoQuant(q)
  IN IF m.end >= q /\ Ch(p, m.end + 1) = "?" THEN [m EXCEPT !.end = @ + 1] ELSE m
startsQuant(c) == c \in {"*", "+", "?", "{"}

\* What reading a piece of the pattern gives: its status, the index it ends
\* at, whether a quantifier may follow it (rep) and how many quantifiers and
\* how many groups and "|" it holds.
Piece(st, e, rep, quants, parts) ==
  [st |-> st, end |-> e, rep |-> rep, quants |-> quants, parts |-> parts]
Stop(st) == Piece(st, 0, FALSE, 0, 0)

\* The class opened at i, read from its member at j; b is where its first
\* member stands.  A "]" as first member, a "[" inside, a "-" that is neither
\* first nor last nor between two characters in order, and escapes other
\* than \d \w \s \D \W \S and escaped punctuation leave the answer open, and
\* so does a class that opens as "[:", "[." or "[=", the way a POSIX name
\* does; a class that is not closed is refused.
classMemberLen(p, j) == IF Ch(p, j) = "\\" THEN 2 ELSE 1
classMemberOk(p, j) ==
  IF Ch(p, j) = "\\"
    THEN isSetEscape(Ch(p, j + 1)) \/ isEscapedLiteral(Ch(p, j + 1))
  ELSE Ch(p, j) \in AsciiChars \ {"[", "]"}
itemIsSet(p, j) == Ch(p, j) = "\\" /\ isSetEscape(Ch(p, j + 1))
itemChar(p, j) == IF Ch(p, j) = "\\" THEN Ch(p, j + 1) ELSE Ch(p, j)
RECURSIVE readClass(_, _, _)
readClass(p, j, b) ==
  LET c == Ch(p, j)
      k == j + classMemberLen(p, j)
  IN IF j > Len(p) \/ (c = "\\" /\ j = Len(p)) THEN Stop("refused")
     ELSE IF c = "]" THEN IF j = b THEN Stop("open") ELSE Piece("plain", j, TRUE, 0, 0)
     ELSE IF ~classMemberOk(p, j) THEN Stop("open")
     ELSE IF c = "-" /\ ~(j = b /\ Ch(p, k) # "-") /\ Ch(p, k) # "]" THEN Stop("open")
     ELSE IF Ch(p, k) = "-" /\ Ch(p, k + 1) # "]"
       THEN IF /\ k + 1 <= Len(p)
               /\ ~itemIsSet(p, j) /\ classMemberOk(p, k + 1) /\ ~itemIsSet(p, k + 1)
               /\ Ch(p, k + 1) # "-"
               /\ charCode(itemChar(p, j)) <= charCode(itemChar(p, k + 1))
              THEN readClass(p, k + 1 + classMemberLen(p, k + 1), b)
            ELSE IF k + 1 > Len(p) THEN Stop("refused")
            ELSE Stop("open")
     ELSE readClass(p, k, b)
classBody(p, i) == IF Ch(p, i + 1) = "^" THEN i + 2 ELSE i + 1

\* What follows the "(" at i: a plain or non-capturing group, a look-ahead,
\* positive or negative, or something else; and where the group's pattern
\* starts.
groupKind(p, i) ==
  IF Ch(p, i + 1) = "*" THEN "other"
  ELSE IF Ch(p, i + 1) # "?" THEN "plain"
  ELSE IF Ch(p, i + 2) = ":" THEN "plain"
  ELSE IF Ch(p, i + 2) = "=" THEN "ahead"
  ELSE IF Ch(p, i + 2) = "!" THEN "notAhead"
  ELSE "other"
groupBody(p, i) == IF Ch(p, i + 1) # "?" THEN i + 1 ELSE i + 3

\* The pattern read from i inside depth groups, up to the ")" that closes the
\* innermost one or to the end of the pattern.  The first piece that is not
\* plain decides: a ")" too many, a group or class left open, a quantifier
\* with nothing before it and a backslash at the very end are refused;
\* whatever else is outside the fragment leaves the answer open.
RECURSIVE readSeq(_, _, _, _, _)
\* The group opened at i, whose pattern read as g: a quantifier may follow a
\* plain group that holds no quantifier, no "|" and no group.
readGroup(p, i, g) ==
  IF g.st # "plain" THEN g
  ELSE Piece("plain", g.end,
             groupKind(p, i) = "plain" /\ g.quants = 0 /\ g.parts = 0,
             g.quants, g.parts + 1)
\* The atom that starts at i.
readAtom(p, i, depth) ==
  LET c == Ch(p, i)
      x == Ch(p, i + 1)
  IN IF c = "\\"
       THEN IF i = Len(p) THEN Stop("refused")
            ELSE IF isSetEscape(x) \/ isEscapedLiteral(x) THEN Piece("plain", i + 1, TRUE, 0, 0)
            ELSE IF isAssertEscape(x) THEN Piece("plain", i + 1, FALSE, 0, 0)
            ELSE Stop("open")
     ELSE IF c = "["
       THEN IF x \in {":", ".", "="} THEN Stop("open")
            ELSE readClass(p, classBody(p, i), classBody(p, i))
     ELSE IF c = "("
       THEN IF groupKind(p, i) = "other" THEN Stop("open")
            ELSE readGroup(p, i, readSeq(p, groupBody(p, i), depth + 1, 0, 0))
     ELSE IF c \in {"^", "$"} THEN Piece("plain", i, FALSE, 0, 0)
     ELSE Piece("plain", i, TRUE, 0, 0)
\* What follows the atom a, q being the quantifier that starts after it, if
\* one does: a quantifier on an atom that takes none, a "{" that is no
\* quantifier and a second quantifier leave the answer open.
readQuant(p, a, q, depth, quants, parts) ==
  IF a.st # "plain" THEN a
  ELSE IF ~startsQuant(Ch(p, a.end + 1))
    THEN readSeq(p, a.end + 1, depth, quants + a.quants, parts + a.parts)
  ELSE IF ~a.rep \/ q.end < a.end + 1 \/ startsQuant(Ch(p, q.end + 1))
    THEN Stop("open")
  ELSE readSeq(p, q.end + 1, depth, quants + a.quants + 1, parts + a.parts)
readAfter(p, a, depth, quants, parts) ==
  readQuant(p, a, quant(p, a.end + 1), depth, quants, parts)
readSeq(p, i, depth, quants, parts) ==
  LET c == Ch(p, i)
  IN IF i > Len(p)
       THEN IF depth = 0 THEN Piece("plain", i, FALSE, quants, parts) ELSE Stop("refused")
     ELSE IF c = ")"
       THEN IF depth = 0 THEN Stop("refused") ELSE Piece("plain", i, FALSE, quants, parts)
     ELSE IF c = "|" THEN readSeq(p, i + 1, depth, quants, parts + 1)
     ELSE IF c \in {"*", "+", "?"} THEN Stop("refused")
     ELSE IF c \in {"{", "}", "]"} THEN Stop("open")
     ELSE readAfter(p, readAtom(p, i, depth), depth, quants, parts)

\* A pattern or a text of printable characters only.
isPrintable(s) == \A k \in 1 .. Len(s) : Ch(s, k) \in AsciiChars
textPlain(t) == Len(t) <= MaxTextLen /\ isPrintable(t)

\* "plain": the engine compiles the pattern and regexMatches is what it
\* answers on a plain text; "refused": the engine does not compile it;
\* "open": the engine's answer is not worked out here.
statusOfRead(whole) ==
  IF whole.st = "plain" /\ whole.quants > MaxQuantifiers THEN "open" ELSE whole.st
regexStatus(pattern) ==
  IF Len(pattern) > MaxPatternLen \/ ~isPrintable(pattern) THEN "open"
  ELSE statusOfRead(readSeq(pattern, 1, 0, 0, 0))

\* The last index of the atom of a plain pattern that starts at i.
RECURSIVE closing(_, _, _)
closing(p, j, depth) ==
  LET c == Ch(p, j)
  IN IF c = "\\" THEN closing(p, j + 2, depth)
     ELSE IF c = "[" THEN closing(p, readClass(p, classBody(p, j), classBody(p, j)).end + 1, depth)
     ELSE IF c = "(" THEN closing(p, j + 1, depth + 1)
     ELSE IF c = ")" THEN IF depth = 1 THEN j ELSE closing(p, j + 1, depth - 1)
     ELSE closing(p, j + 1, depth)
atomEnd(p, i) ==
  LET c == Ch(p, i)
  IN IF c = "\\" THEN i + 1
     ELSE IF c = "[" THEN readClass(p, classBody(p, i), classBody(p, i)).end
     ELSE IF c = "(" THEN closing(p, i + 1, 1)
     ELSE i

\* Whether character c is in the class p[i .. e], letters compared without
\* case.
inRange(lo, hi, c) ==
  \E x \in {c, lowerChar(c), upperChar(c)} :
    /\ charCode(x) # 0 /\ charCode(lo) # 0
    /\ charCode(lo) <= charCode(x) /\ charCode(x) <= charCode(hi)
\* A range lo-hi starts at j: a "-" and a further member follow lo.
isRange(p, j, e) ==
  LET k == j + classMemberLen(p, j)
  IN ~itemIsSet(p, j) /\ Ch(p, k) = "-" /\ k + 1 < e
RECURSIVE classItems(_, _, _, _)
classItems(p, j, e, c) ==
  IF j >= e THEN FALSE
  ELSE IF itemIsSet(p, j)
    THEN setHas(Ch(p, j + 1), c) \/ classItems(p, j + 2, e, c)
  ELSE IF isRange(p, j, e)
    THEN LET k == j + classMemberLen(p, j) + 1
         IN \/ inRange(itemChar(p, j), itemChar(p, k), c)
            \/ classItems(p, k + classMemberLen(p, k), e, c)
  ELSE \/ lowerChar(itemChar(p, j)) = lowerChar(c)
       \/ classItems(p, j + classMemberLen(p, j), e, c)
classHas(p, i, e, c) ==
  IF Ch(p, i + 1) = "^" THEN ~classItems(p, i + 2, e, c)
  ELSE classItems(p, i + 1, e, c)

\* The first "|" of p[i .. j] outside groups and classes, 0 for none.
RECURSIVE firstBar(_, _, _)
firstBar(p, i, j) ==
  IF i > j THEN 0
  ELSE IF Ch(p, i) = "|" THEN i
  ELSE firstBar(p, atomEnd(p, i) + 1, j)

\* Position s of text t is at a word boundary; is the end of the text, or
\* just before its last line feed.
isWordAt(t, k) == k >= 1 /\ k <= Len(t) /\ wordChar(Ch(t, k))
boundary(t, s) == isWordAt(t, s) # isWordAt(t, s + 1)
atEnd(t, s) == s = Len(t) \/ (s = Len(t) - 1 /\ Ch(t, Len(t)) = "\n")

\* The positions consumed: S is a set of positions of the text t (the number
\* of characters before them), and each operator gives the positions a
\* match of its part of the plain pattern p can end at when it starts in S.
RECURSIVE matchAlt(_, _, _, _, _)
RECURSIVE matchSeq(_, _, _, _, _)
RECURSIVE matchOne(_, _, _, _, _)
RECURSIVE matchTimes(_, _, _, _, _, _)
RECURSIVE matchMore(_, _, _, _, _, _, _)
\* One more character, of those that satisfy ok.
advance(S, t, ok(_)) == {s + 1 : s \in {x \in S : x < Len(t) /\ ok(Ch(t, x + 1))}}
\* The atom p[i .. e], once.
matchOne(p, i, e, S, t) ==
  LET c == Ch(p, i)
      x == Ch(p, i + 1)
      b == groupBody(p, i)
      k == groupKind(p, i)
  IN IF c = "("
       THEN IF k = "plain" THEN matchAlt(p, b, e - 1, S, t)
            ELSE IF k = "ahead" THEN {s \in S : matchAlt(p, b, e - 1, {s}, t) # {}}
            ELSE {s \in S : matchAlt(p, b, e - 1, {s}, t) = {}}
     ELSE IF c = "[" THEN advance(S, t, LAMBDA y : classHas(p, i, e, y))
     ELSE IF c = "\\"
       THEN IF isSetEscape(x) THEN advance(S, t, LAMBDA y : setHas(x, y))
            ELSE IF x = "b" THEN {s \in S : boundary(t, s)}
            ELSE IF x = "B" THEN {s \in S : ~boundary(t, s)}
            ELSE advance(S, t, LAMBDA y : y = x)
     ELSE IF c = "." THEN advance(S, t, LAMBDA y : y # "\n")
     ELSE IF c = "^" THEN S \cap {0}
     ELSE IF c = "$" THEN {s \in S : atEnd(t, s)}
     ELSE advance(S, t, LAMBDA y : lowerChar(y) = lowerChar(c))
\* The atom n times.
matchTimes(p, i, e, n, S, t) ==
  IF n = 0 \/ S = {} THEN S
  ELSE matchTimes(p, i, e, n - 1, matchOne(p, i, e, S, t), t)
\* The atom up to k times more (-1: any number): acc is what has been
\* reached, front what the last round added.
matchMore(p, i, e, k, acc, front, t) ==
  IF k = 0 \/ front = {} THEN acc
  ELSE LET new == matchOne(p, i, e, front, t) \ acc
       IN matchMore(p, i, e, IF k = -1 THEN -1 ELSE k - 1, acc \cup new, new, t)
\* The atom p[i .. e] with its quantifier q, from least, which is where q.lo
\* times of it end.
matchUpTo(p, i, e, q, least, t) ==
  IF q.hi = q.lo THEN least
  ELSE matchMore(p, i, e, IF q.hi = -1 THEN -1 ELSE q.hi - q.lo, least, least, t)
\* The atoms of p[i .. j], which holds no "|" outside groups, one after the
\* other, each with its quantifier: the first is p[i .. e] with q.
matchFrom(p, i, e, q, j, S, t) ==
  matchSeq(p, q.end + 1, j, matchUpTo(p, i, e, q, matchTimes(p, i, e, q.lo, S, t), t), t)
matchAtom(p, i, e, j, S, t) == matchFrom(p, i, e, quant(p, e + 1), j, S, t)
matchSeq(p, i, j, S, t) ==
  IF i > j \/ S = {} THEN S ELSE matchAtom(p, i, atomEnd(p, i), j, S, t)
\* The alternatives of p[i .. j], the first of which ends before the "|" at
\* b (0: there is one alternative only).
matchBranches(p, i, j, b, S, t) ==
  matchSeq(p, i, IF b = 0 THEN j ELSE b - 1, S, t)
    \cup (IF b = 0 THEN {} ELSE matchAlt(p, b + 1, j, S, t))
matchAlt(p, i, j, S, t) == matchBranches(p, i, j, firstBar(p, i, j), S, t)

\* { $regex: pattern, $options: 'i' } with a plain pattern on a plain text:
\* the pattern matches somewhere in it.
regexMatches(pattern, text) ==
  /\ regexStatus(pattern) = "plain" /\ textPlain(text)
  /\ matchAlt(pattern, 1, Len(pattern), 0 .. Len(text), text) # {}

\* The patterns the listings ask for on the numbers orders carry, read and
\* matched once: the engine's answer for a pattern and a text does not
\* depend on the request.
AskedPatterns ==
  {"ord-000002", "^ord-0+[12]$", "(", "(?i)ord", "[[:digit:]]{6}", "0++1"}
CarriedNumbers == {orderNumberFor(n) : n \in 0 .. 9}
statusTable == [p \in AskedPatterns |-> regexStatus(p)]
matchTable ==
  [p \in AskedPatterns |-> [t \in CarriedNumbers |-> regexMatches(p, t)]]
plainTable == [t \in CarriedNumbers |-> textPlain(t)]
regexStatusOf(p) == IF p \in AskedPatterns THEN statusTable[p] ELSE regexStatus(p)
textIsPlain(t) == IF t \in CarriedNumbers THEN plainTable[t] ELSE textPlain(t)
regexTest(p, t) ==
  IF p \in AskedPatterns /\ t \in CarriedNumbers THEN matchTable[p][t]
  ELSE regexMatches(p, t)

\* What the engine may answer for pattern p on the texts T: it refuses the
\* pattern, or it compiles it and matches some of the texts.  For a plain
\* pattern the plain texts it matches are those of regexTest; a refused
\* pattern is refused; the rest is open.
EngineAnswer(compiles, matched) == [compiles |-> compiles, matched |-> matched]
engineAnswers(p, T) ==
  LET st == regexStatusOf(p)
      plain == {t \in T : textIsPlain(t)}
      sure == {t \in plain : regexTest(p, t)}
  IN IF st = "refused" THEN {EngineAnswer(FALSE, {})}
     ELSE IF st = "plain" THEN {EngineAnswer(TRUE, sure \cup X) : X \in SUBSET (T \ plain)}
     ELSE {EngineAnswer(FALSE, {})} \cup {EngineAnswer(TRUE, X) : X \in SUBSET T}

\* period === '7d' ? 7 : period === '30d' ? 30 : 90
periodDays(period) == IF period = "7d" THEN 7 ELSE IF period = "30d" THEN 30 ELSE 90

\* Days between an order's createdAt and the request, read off the clock
\* the request runs against: ages[id] for the orders the clock names, 0 for
\* the ones created since.
ageOf(ages, o) == IF o.id \in DOMAIN ages THEN ages[o.id] ELSE 0

\* const query = req.user.isAdmin ? {} : { user: req.user._id }
baseQueryAll(u, o) == TRUE
baseQuery(u, o) == isAdmin(u) \/ o.user = u

\* The query object with the filters that were given; matched holds the
\* order numbers the engine matches the pattern against.  An order without a
\* number matches no pattern.
matches(u, q, ages, matched, o) ==
  /\ baseQuery(u, o)
  /\ q.status # "" => o.status = q.status
  /\ q.orderNumber # "" => (o.orderNumber # "" /\ o.orderNumber \in matched)
  /\ q.period # "" => ageOf(ages, o) <= periodDays(q.period)

RECURSIVE sortNewestFirst(_)
\* .sort({ createdAt: -1 }); ids grow with createdAt.
sortNewestFirst(S) ==
  IF S = {} THEN <<>>
  ELSE LET newest == CHOOSE o \in S : \A p \in S : p.id <= o.id
       IN <<newest>> \o sortNewestFirst(S \ {newest})

\* .skip(n).limit(m) on the sorted result; limit(0) is no limit.
skipLimit(seq, n, m) ==
  LET last == IF m = 0 \/ n + m > Len(seq) THEN Len(seq) ELSE n + m
  IN SubSeq(seq, n + 1, last)

\* getOrders: the query is built from the requester and the filters, then
\* either counted or found, sorted and paged.  A negative skip and a pattern
\* the engine refuses are errors of the store, answered 400 by the catch
\* block.  The engine's answer shows on the numbers of the orders the rest
\* of the query selects, so it is drawn for these.  As bookkeeping the
\* request keeps the ids of the orders countDocuments counted (counted).
getOrders(r, u, q, ages) ==
  LET rec == [IdleReq EXCEPT !.kind = "getOrders", !.user = u]
      rest == [q EXCEPT !.orderNumber = ""]
      numbers == {o.orderNumber : o \in {p \in orders : matches(u, rest, ages, {}, p)}} \ {""}
      answers == IF q.orderNumber = "" THEN {EngineAnswer(TRUE, {})}
                 ELSE engineAnswers(q.orderNumber, numbers)
      skip == (q.page - 1) * q.limit
      out(a) ==
        LET hit == {hydrate(o) : o \in {p \in orders : matches(u, q, ages, a.matched, p)}}
        IN IF q.count
             THEN IF ~a.compiles THEN Respond(rec, 400, "BadRegex", NoDoc)
                  ELSE Respond([rec EXCEPT !.count = Cardinality(hit),
                                           !.counted = {o.id : o \in hit}],
                               200, "", NoDoc)
           ELSE IF skip < 0 THEN Respond(rec, 400, "BadSkip", NoDoc)
           ELSE IF ~a.compiles THEN Respond(rec, 400, "BadRegex", NoDoc)
           ELSE Respond([rec EXCEPT
                           !.list = skipLimit(sortNewestFirst(hit), skip, q.limit)],
                        200, "", NoDoc)
  IN /\ \E a \in answers : Begin(r, out(a))
     /\ UNCHANGED <<stock, orders, nextOid, addresses, pushVars, carts, emitted>>

\* ---------------------------------------------------------------- inputs
\* createOrder request bodies: [user, items, address, paymentMethod].
CreateInput(u, items, a, pm) ==
  [user |-> u, items |-> items, address |-> a, paymentMethod |-> pm]

\* Bodies for concurrent creation: one or two units of one product, two
\* products at once, bodies the product lookup rejects and one whose
\* product id is no id.
CreateInputs ==
  { CreateInput("u1", <<Item("pA", 1, 1000)>>, "a1", "Pay on Delivery"),
    CreateInput("u2", <<Item("pA", 1, 1000)>>, "a2", "Paystack"),
    CreateInput("u1", <<Item("pA", 2, 1000)>>, "a1", "Card Payment"),
    CreateInput("u2", <<Item("pB", 1, 500), Item("pA", 1, 1000)>>, "a2", "Paystack"),
    CreateInput("u1", <<Item("pA", 1, 1000), Item("pA", 1, 1000)>>, "a1", "Paystack"),
    CreateInput("u1", <<Item(UnknownProduct, 1, 1000)>>, "a1", "Paystack"),
    CreateInput("u1", <<Item(MalformedId, 1, 1000)>>, "a1", "Paystack") }

\* Order ids and numbers a request may name: those handed out so far
\* (IssuedIds), and the next one, which names no order.
IssuedIds == 1 .. (nextOid - 1)
OrderIds == 1 .. nextOid
OrderNumbers == {orderNumberFor(n - 1) : n \in OrderIds}
PaymentStatusInputs == {"completed", "refunded"}

\* The body createOrder is called with next to the other operations.
LifeCreateInputs ==
  { CreateInput("u1", <<Item("pA", 1, 1000)>>, "a1", "Pay on Delivery") }

\* Bodies with priced lines and with a free line (subtotal 0).
TotalsCreateInputs ==
  { CreateInput("u1", <<Item("pB", 1, 500), Item("pA", 1, 1000)>>, "a1", "Paystack"),
    CreateInput("u2", <<Item("pB", 1, 0)>>, "a2", "Bank Transfer") }

\* createNotification(user, message, type) of the notification controller:
\* it resolves (TRUE), or fails with DeliveryFailed (FALSE).
NotificationOutcomes == BOOLEAN

\* The steps of a running createOrder; oks are the outcomes the hook's store
\* reads and the cart store may have, sent those of createNotification.
CreateSteps(r, oks, sent) ==
  \/ createOrderFindAddress(r)
  \/ createOrderDecStock(r)
  \/ \E ok \in oks : preSaveCount(r, ok)
  \/ \E ok \in oks : preSaveFind(r, ok)
  \/ createOrderInsert(r)
  \/ \E ok \in oks : createOrderClearCart(r, ok)
  \/ \E ok \in oks : createOrderCartSave(r, ok)
  \/ \E ok \in oks : createOrderCartCheck(r, ok)
  \/ createOrderPopulate(r)
  \/ \E ok \in sent : createOrderNotify(r, ok)

\* The steps of a running updateOrderStatus after its entry.  The lookup of a
\* substitute address is taken only when the order's address is gone, and is
\* listed by the specifications in which an address can go.
UpdateSteps(r, sent) ==
  \/ updateOrderStatusSave(r)
  \/ \E ok \in sent : updateOrderStatusNotify(r, ok)
  \/ updateOrderStatusPopulate(r)

\* Concurrent order creation.
NextCreate ==
  \E r \in Slots :
    \/ \E in \in CreateInputs :
          createOrder(r, in.user, in.items, in.address, in.paymentMethod)
    \/ CreateSteps(r, {TRUE}, {TRUE})

SpecCreate == Init /\ [][NextCreate]_vars

\* Orders and their status and payment-status updates.
NextStatus ==
  \E r \in Slots :
    \/ \E in \in LifeCreateInputs :
          createOrder(r, in.user, in.items, in.address, in.paymentMethod)
    \/ CreateSteps(r, {TRUE}, {TRUE})
    \/ \E oid \in IssuedIds, st \in validStatuses :
          updateOrderStatus(r, "admin", oid, st)
    \/ UpdateSteps(r, {TRUE})
    \/ \E oid \in IssuedIds, ps \in PaymentStatusInputs :
          verifyPaymentProof(r, "admin", oid, ps)
    \/ verifyPaymentProofSave(r)

SpecStatus == Init /\ [][NextStatus]_vars

\* Order totals through creation and status updates.
NextTotals ==
  \E r \in Slots :
    \/ \E in \in TotalsCreateInputs :
          createOrder(r, in.user, in.items, in.address, in.paymentMethod)
    \/ CreateSteps(r, {TRUE}, {TRUE})
    \/ \E oid \in IssuedIds, st \in {"Packed", "Delivered"} :
          updateOrderStatus(r, "admin", oid, st)
    \/ UpdateSteps(r, {TRUE})

SpecTotals == Init /\ [][NextTotals]_vars

\* Who may do what: updates and deletions by admins and others, reads by
\* owners, other users and admins.
NextAccess ==
  \E r \in Slots :
    \/ \E in \in LifeCreateInputs :
          createOrder(r, in.user, in.items, in.address, in.paymentMethod)
    \/ CreateSteps(r, {TRUE}, {TRUE})
    \/ \E u \in {"admin", "u2"}, oid \in OrderIds, st \in {"Packed", "Refunded"} :
          updateOrderStatus(r, u, oid, st)
    \/ UpdateSteps(r, {TRUE})
    \/ \E u \in {"admin", "u2"}, oid \in OrderIds : deleteOrder(r, u, oid)
    \/ \E u \in Users, oid \in OrderIds : getOrder(r, u, oid)
    \/ \E u \in Users, n \in OrderNumbers : trackOrder(r, u, n)

SpecAccess == Init /\ [][NextAccess]_vars

\* What the bank-transfer controller's createOrder is sent: u1 with the own
\* address, with another user's, with none, and with another method.
BankInputs ==
  { CreateInput("u1", <<>>, "a1", "Bank Transfer"),
    CreateInput("u1", <<>>, "a2", "Bank Transfer"),
    CreateInput("u1", <<>>, NoAddress, "Bank Transfer"),
    CreateInput("u1", <<>>, "a1", "Paystack") }

\* Payment verification by admins and others, next to status updates and
\* to the bank-transfer controller's creations and status updates.
NextPayment ==
  \E r \in Slots :
    \/ \E in \in LifeCreateInputs :
          createOrder(r, in.user, in.items, in.address, in.paymentMethod)
    \/ CreateSteps(r, {TRUE}, {TRUE})
    \/ \E oid \in IssuedIds, st \in {"Packed", "Cancelled"} :
          updateOrderStatus(r, "admin", oid, st)
    \/ UpdateSteps(r, {TRUE})
    \/ \E u \in {"admin", "u1"}, oid \in OrderIds, ps \in PaymentStatusInputs :
          verifyPaymentProof(r, u, oid, ps)
    \/ verifyPaymentProofSave(r)
    \/ createOrderBankTransfer(r, "u1", "a2", "Bank Transfer")
    \/ createOrderBankTransferDeleteCart(r)
    \/ updateOrderStatusPlain(r, "admin", 1, "Packed")
    \/ updateOrderStatusPlainSave(r)

SpecPayment == Init /\ [][NextPayment]_vars

\* The bank-transfer controller by itself.
NextBank ==
  \E r \in Slots :
    \/ \E in \in BankInputs :
          createOrderBankTransfer(r, in.user, in.address, in.paymentMethod)
    \/ \E ok \in BOOLEAN : preSaveCount(r, ok)
    \/ \E ok \in BOOLEAN : preSaveFind(r, ok)
    \/ createOrderInsert(r)
    \/ createOrderBankTransferDeleteCart(r)
    \/ \E u \in {"admin", "u1"}, oid \in OrderIds, st \in {"Packed", "Refunded"} :
          updateOrderStatusPlain(r, u, oid, st)
    \/ updateOrderStatusPlainSave(r)

SpecBank == Init /\ [][NextBank]_vars

\* Bodies naming the requester's address, one that does not exist, another
\* user's, one without state, and a string that is no id.
AddressCreateInputs ==
  { CreateInput("u1", <<Item("pA", 1, 1000)>>, a, "Pay on Delivery") :
      a \in {"a1", UnknownAddress, "a2", "a3", MalformedId} }

\* Bodies of addAddress: a full one, one to be the default whose state is a
\* blank, one whose state is a tab, one with white space around label and
\* city, one without city and one with a phone number of four digits.
FullAddress == AddressInput("Home", "Kano", "Kano", "NG", "+2348012345678", "undefined")
AddressInputs ==
  { FullAddress,
    [FullAddress EXCEPT !.isDefault = "true", !.state = " "],
    [FullAddress EXCEPT !.state = "\t"],
    [FullAddress EXCEPT !.label = "Home\t", !.city = "\n" \o LineTabulation \o "Kano"],
    [FullAddress EXCEPT !.city = ""],
    [FullAddress EXCEPT !.phone = "0801"] }

\* Requests to updateAddress: u1 completes the address without state, makes
\* it the default, sends a1 what a1 holds already (with white space after
\* the state); u2 names u1's address; a string that is no id.
AddressUpdates ==
  { [user |-> "u1", address |-> "a3", body |-> [FullAddress EXCEPT !.state = "Lagos "]],
    [user |-> "u1", address |-> "a1",
     body |-> AddressInput("Home", "Town", "Lagos\t", "NG", "+2348012345678", "undefined")],
    [user |-> "u1", address |-> "a3", body |-> [FullAddress EXCEPT !.isDefault = "true"]],
    [user |-> "u2", address |-> "a1", body |-> FullAddress],
    [user |-> "u1", address |-> MalformedId, body |-> FullAddress] }

\* Orders and the address book: creation, addition, change and deletion of
\* addresses by their owners and by others, status updates.
NextAddress ==
  \E r \in Slots :
    \/ \E in \in AddressCreateInputs :
          createOrder(r, in.user, in.items, in.address, in.paymentMethod)
    \/ CreateSteps(r, {TRUE}, {TRUE})
    \/ \E u \in Customers, a \in {"a1", "a3", UnknownAddress, MalformedId} :
          deleteAddress(r, u, a)
    \/ \E oid \in IssuedIds : updateOrderStatus(r, "admin", oid, "Packed")
    \/ updateOrderStatusFindAddress(r)
    \/ UpdateSteps(r, {TRUE})
    \/ addAddress(r, "u2", [FullAddress EXCEPT !.isDefault = "true"])
    \/ addAddressSave(r)
    \/ updateAddress(r, "u1", "a3", [FullAddress EXCEPT !.isDefault = "true"])
    \/ updateAddressUnsetDefaults(r)
    \/ updateAddressSave(r)

SpecAddress == Init /\ [][NextAddress]_vars

\* The address book by itself.
NextBook ==
  \E r \in Slots :
    \/ \E u \in Customers, in \in AddressInputs : addAddress(r, u, in)
    \/ addAddressSave(r)
    \/ \E in \in AddressUpdates : updateAddress(r, in.user, in.address, in.body)
    \/ updateAddressUnsetDefaults(r)
    \/ updateAddressSave(r)
    \/ \E u \in Customers, a \in {"a1", "a3"} : deleteAddress(r, u, a)

SpecBook == Init /\ [][NextBook]_vars

\* Bodies of two customers for two products.
TwoCreateInputs ==
  { CreateInput("u1", <<Item("pA", 1, 1000)>>, "a1", "Pay on Delivery"),
    CreateInput("u2", <<Item("pB", 1, 500)>>, "a2", "Paystack") }

\* Deletion next to creation, reads by id and by number and status updates.
NextDelete ==
  \E r \in Slots :
    \/ \E in \in TwoCreateInputs :
          createOrder(r, in.user, in.items, in.address, in.paymentMethod)
    \/ CreateSteps(r, {TRUE}, {TRUE})
    \/ \E oid \in OrderIds : deleteOrder(r, "admin", oid)
    \/ \E u \in {"admin", "u1"}, oid \in OrderIds : getOrder(r, u, oid)
    \/ \E n \in OrderNumbers : trackOrder(r, "admin", n)
    \/ \E oid \in OrderIds : updateOrderStatus(r, "admin", oid, "Packed")
    \/ UpdateSteps(r, {TRUE})

SpecDelete == Init /\ [][NextDelete]_vars

\* What socket clients send in this model: nothing usable, the id of the
\* first order alone, and an order object of u1 with a status of their own.
SocketPayloads ==
  { Payload(0, "", ""), Payload(1, "", ""), Payload(1, "u1", "Delivered") }

\* webPush.sendNotification resolves or rejects.
SendOutcomes == BOOLEAN

SocketSteps(r) ==
  \/ onOrderStatusUpdateFetch(r)
  \/ onOrderStatusUpdateFind(r)
  \/ \E ok \in SendOutcomes : onOrderStatusUpdateSend(r, ok)
  \/ onOrderStatusUpdatePurge(r)

\* Push subscriptions, the socket handler, creation and status updates.
NextPush ==
  \E r \in Slots :
    \/ \E u \in Customers, e \in Endpoints : subscribe(r, u, e)
    \/ subscribeInsert(r)
    \/ \E order \in SocketPayloads : onOrderStatusUpdate(r, order)
    \/ SocketSteps(r)
    \/ \E userId \in {"", "u1"} : pushSend(r, "u2", userId)
    \/ \E k \in 1 .. 2, ok \in SendOutcomes : pushSendSettle(r, k, ok)
    \/ \E k \in 1 .. 2 : pushSendPurge(r, k)
    \/ \E in \in LifeCreateInputs :
          createOrder(r, in.user, in.items, in.address, in.paymentMethod)
    \/ CreateSteps(r, {TRUE}, {TRUE})
    \/ \E oid \in IssuedIds : updateOrderStatus(r, "admin", oid, "Packed")
    \/ UpdateSteps(r, {TRUE})

SpecPush == Init /\ [][NextPush]_vars

\* A store holding one record from before orders had subtotal, total and
\* deliveryFee: u2's order of two units of pB, whose address document is
\* gone.  Both customers have a filled cart.
LegacyOrder ==
  [newOrder(1, "u2", "a0", <<Item("pB", 2, 500)>>, "Pay on Delivery")
     EXCEPT !.subtotal = 0, !.deliveryFee = 0, !.total = 0,
            !.orderNumber = orderNumberFor(0)]

InitLegacy ==
  /\ stock = [p \in Products |-> InitStock]
  /\ orders = {LegacyOrder}
  /\ nextOid = 2
  /\ addresses = InitAddresses
  /\ carts = [u \in Users |-> IF u \in Customers THEN InitCart ELSE NoCart]
  /\ emitted = <<>>
  /\ req = [r \in Slots |-> IdleReq]
  /\ started = 0
  /\ visitors = {}
  /\ subscriptions = <<>>
  /\ pushLog = <<>>
  /\ sockets = [s \in SocketIds |-> NewSocket]

\* Status updates of old and new orders while owners delete addresses.
NextHeal ==
  \E r \in Slots :
    \/ \E oid \in IssuedIds, st \in {"Packed", "Delivered"} :
          updateOrderStatus(r, "admin", oid, st)
    \/ updateOrderStatusFindAddress(r)
    \/ UpdateSteps(r, {TRUE})
    \/ \E a \in {"a1", "a2"} : deleteAddress(r, "u2", a)
    \/ \E in \in {c \in TotalsCreateInputs : c.user = "u2"} :
          createOrder(r, in.user, in.items, in.address, in.paymentMethod)
    \/ CreateSteps(r, {TRUE}, {TRUE})

SpecHeal == InitLegacy /\ [][NextHeal]_vars

\* What clients send with joinAdmin and joinUser: the token of an admin, of
\* a customer (with the prefix in front and in the middle), of a removed
\* user, a forged token, and nothing.
JoinArgs ==
  { JoinArg(TRUE, "Bearer jwtAdmin"), JoinArg(TRUE, "Bearer jwtU1"),
    JoinArg(TRUE, "jwtBearer U1"),
    JoinArg(TRUE, "Bearer jwtGone"), JoinArg(TRUE, "Bearer forged"),
    JoinArg(FALSE, "") }

\* Sockets joining rooms and reporting catalogue changes.
NextSockets ==
  \E r \in Slots :
    \/ \E s \in SocketIds, arg \in JoinArgs : joinAdmin(r, s, arg)
    \/ \E s \in SocketIds, arg \in JoinArgs, outcome \in UnhandledRejectionOutcomes :
          joinUser(r, s, arg, outcome)
    \/ joinFindUser(r)
    \/ \E s \in SocketIds : onCategoryUpdate(r, s)
    \/ \E s \in SocketIds : onProductUpdate(r, s)

SpecSockets == Init /\ [][NextSockets]_vars

\* A store that already holds orders of both customers, the second one
\* packed.
storedOrder(oid, u, a, items, st) ==
  [newOrder(oid, u, a, items, "Paystack") EXCEPT
     !.orderNumber = orderNumberFor(oid - 1), !.status = st,
     !.tracking = IF st = "Placed" THEN <<>> ELSE <<st>>]

InitListed ==
  /\ stock = [p \in Products |-> InitStock]
  /\ orders = { storedOrder(1, "u1", "a1", <<Item("pA", 1, 1000)>>, "Placed"),
                storedOrder(2, "u2", "a2", <<Item("pB", 1, 500)>>, "Packed"),
                storedOrder(3, "u1", "a1", <<Item("pB", 2, 500)>>, "Packed") }
  /\ nextOid = 4
  /\ addresses = InitAddresses
  /\ carts = [u \in Users |-> NoCart]
  /\ emitted = <<>>
  /\ req = [r \in Slots |-> IdleReq]
  /\ started = 0
  /\ visitors = {}
  /\ subscriptions = <<>>
  /\ pushLog = <<>>
  /\ sockets = [s \in SocketIds |-> NewSocket]

\* Query strings of getOrders: each filter absent and present (the number
\* asked for is the other customer's, in lower case), listed on the first
\* page, on the second page of one and on page 0, or counted; and numbers
\* asked for by a pattern that matches the first two, by one that is no
\* regular expression and by patterns outside the fragment worked out here
\* (an inline option, a POSIX class, a possessive quantifier).
Filters ==
  { Query(st, n, p, 1, 10, FALSE) :
      st \in {"", "Packed"}, n \in {"", "ord-000002"}, p \in {"", "7d", "1y"} }

Patterns ==
  { Query("", n, "", 1, 10, c) :
      n \in {"^ord-0+[12]$", "(", "(?i)ord", "[[:digit:]]{6}", "0++1"}, c \in BOOLEAN }

Queries ==
  { [q EXCEPT !.page = pl[1], !.limit = pl[2]] :
      q \in Filters, pl \in {<<1, 10>>, <<2, 1>>, <<0, 1>>, <<1, 0>>} }
  \cup { [q EXCEPT !.count = TRUE] : q \in Filters }

\* Clocks a listing runs against: the age in days of the three stored orders.
\* Only a listing with a period reads the clock.
Clocks == { <<100, 20, 3>>, <<8, 8, 8>> }
ClocksFor(q) == IF q.period = "" THEN { <<8, 8, 8>> } ELSE Clocks

\* Listings by customers and admins next to a deletion and a status update.
NextList ==
  \E r \in Slots :
    \/ \E u \in Users, q \in Queries \cup Patterns :
          \E ages \in ClocksFor(q) : getOrders(r, u, q, ages)
    \/ deleteOrder(r, "admin", 2)
    \/ updateOrderStatus(r, "admin", 1, "Packed")
    \/ UpdateSteps(r, {TRUE})

SpecList == InitListed /\ [][NextList]_vars

\* Creations of one customer whose cart block may fail, next to the
\* bank-transfer controller's creation, which deletes the cart.
NextCart ==
  \E r \in Slots :
    \/ \E in \in LifeCreateInputs :
          createOrder(r, in.user, in.items, in.address, in.paymentMethod)
    \/ CreateSteps(r, {TRUE}, {TRUE})
    \/ createOrderBankTransfer(r, "u1", "a1", "Bank Transfer")
    \/ createOrderBankTransferDeleteCart(r)
    \/ createOrderClearCart(r, FALSE)
    \/ createOrderCartSave(r, FALSE)
    \/ createOrderCartCheck(r, FALSE)

SpecCart == Init /\ [][NextCart]_vars

\* Subscribe requests one at a time, to either of the two routes, by
\* customers and admins, with an endpoint or with no body.
NextSubscribe ==
  \/ \E u \in Users, e \in Endpoints \cup {""} : OthersQuiet(1) /\ subscribe(1, u, e)
  \/ subscribeInsert(1)
  \/ \E u \in Users, e \in Endpoints \cup {""} :
        OthersQuiet(1) /\ pushSubscription(1, u, e)
  \/ pushSubscriptionInsert(1)

SpecSubscribe == Init /\ [][NextSubscribe]_vars

\* Creation and status updates with a createNotification that may fail.
NextNotify ==
  \E r \in Slots :
    \/ \E in \in LifeCreateInputs :
          createOrder(r, in.user, in.items, in.address, in.paymentMethod)
    \/ CreateSteps(r, {TRUE}, NotificationOutcomes)
    \/ \E oid \in IssuedIds, st \in {"Packed", "Delivered"} :
          updateOrderStatus(r, "admin", oid, st)
    \/ UpdateSteps(r, NotificationOutcomes)

SpecNotify == Init /\ [][NextNotify]_vars

\* The store after u1 and u2 each placed an order and the admin deleted the
\* first (deleteOrder): one order, numbered ORD-000002.  Each product had
\* one unit more than InitStock before the two orders, which took one unit
\* each, and the deletion put nothing back; createOrder left both customers
\* a cart without items.  The log of emits and the request slots start
\* afresh.
InitAfterDelete ==
  /\ stock = [p \in Products |-> InitStock]
  /\ orders = {[newOrder(2, "u2", "a2", <<Item("pB", 1, 500)>>, "Paystack")
                  EXCEPT !.orderNumber = orderNumberFor(1)]}
  /\ nextOid = 3
  /\ addresses = InitAddresses
  /\ carts = [u \in Users |-> IF u \in Customers THEN Cart(<<>>) ELSE NoCart]
  /\ emitted = <<>>
  /\ req = [r \in Slots |-> IdleReq]
  /\ started = 0
  /\ visitors = {}
  /\ subscriptions = <<>>
  /\ pushLog = <<>>
  /\ sockets = [s \in SocketIds |-> NewSocket]

\* Order numbers after a deletion: creations whose store reads may fail, and
\* further deletions.
NextNumbers ==
  \E r \in Slots :
    \/ \E in \in LifeCreateInputs :
          createOrder(r, in.user, in.items, in.address, in.paymentMethod)
    \/ CreateSteps(r, BOOLEAN, {TRUE})
    \/ \E oid \in IssuedIds : deleteOrder(r, "admin", oid)

SpecNumbers == InitAfterDelete /\ [][NextNumbers]_vars

\* Creations one at a time: a request starts only when none is running, so
\* the first slot serves them all.
NextSerial ==
  \/ \E in \in CreateInputs :
        /\ OthersQuiet(1)
        /\ createOrder(1, in.user, in.items, in.address, in.paymentMethod)
  \/ CreateSteps(1, {TRUE}, {TRUE})

SpecSerial == Init /\ [][NextSerial]_vars

\* The same with every running createOrder taking its next step sooner or
\* later: the event loop resumes a handler once its awaited call settles.
FairNumbers ==
  /\ SpecNumbers
  /\ \A r \in Slots : WF_vars(CreateSteps(r, BOOLEAN, {TRUE}))

\* A store with a record from before orders had numbers, u2's, next to a
\* numbered order of u1, whose creation left u1 a cart without items; u2 has
\* a filled cart.
UnnumberedOrder ==
  [newOrder(1, "u2", "a2", <<Item("pB", 2, 500)>>, "Pay on Delivery")
     EXCEPT !.orderNumber = ""]

InitUnnumbered ==
  /\ stock = [p \in Products |-> InitStock]
  /\ orders = {UnnumberedOrder, storedOrder(2, "u1", "a1", <<Item("pA", 1, 1000)>>, "Placed")}
  /\ nextOid = 3
  /\ addresses = InitAddresses
  /\ carts = [u1 |-> Cart(<<>>), u2 |-> InitCart, admin |-> NoCart]
  /\ emitted = <<>>
  /\ req = [r \in Slots |-> IdleReq]
  /\ started = 0
  /\ visitors = {}
  /\ subscriptions = <<>>
  /\ pushLog = <<>>
  /\ sockets = [s \in SocketIds |-> NewSocket]

\* Saves of the record without a number, whose hook's store reads may fail,
\* next to a creation and a deletion.
NextUnnumbered ==
  \E r \in Slots :
    \/ \E st \in {"Packed", "Refunded"} : updateOrderStatus(r, "admin", 1, st)
    \/ UpdateSteps(r, {TRUE})
    \/ \E ps \in PaymentStatusInputs : verifyPaymentProof(r, "admin", 1, ps)
    \/ verifyPaymentProofSave(r)
    \/ updateOrderStatusPlain(r, "admin", 1, "Packed")
    \/ updateOrderStatusPlainSave(r)
    \/ \E in \in LifeCreateInputs :
          createOrder(r, in.user, in.items, in.address, in.paymentMethod)
    \/ CreateSteps(r, BOOLEAN, {TRUE})
    \/ deleteOrder(r, "admin", 2)

SpecUnnumbered == InitUnnumbered /\ [][NextUnnumbered]_vars

\* A store in which two visitor locations have been recorded, the second
\* one later.
InitVisitor ==
  /\ stock = [p \in Products |-> InitStock]
  /\ orders = {}
  /\ nextOid = 1
  /\ addresses = InitAddresses
  /\ carts = [u \in Users |-> IF u \in Customers THEN InitCart ELSE NoCart]
  /\ emitted = <<>>
  /\ req = [r \in Slots |-> IdleReq]
  /\ started = 0
  /\ visitors = {Visitor(1, 10), Visitor(2, 20)}
  /\ subscriptions = <<>>
  /\ pushLog = <<>>
  /\ sockets = [s \in SocketIds |-> NewSocket]

\* A creation that goes through and one that asks for more than is in stock.
VisitorCreateInputs ==
  { CreateInput("u1", <<Item("pA", 1, 1000)>>, "a1", "Pay on Delivery"),
    CreateInput("u2", <<Item("pA", 2, 1000)>>, "a2", "Card Payment") }

\* Requests over HTTP, each with the middleware's lookup, whose read may
\* fail, next to a socket message, which the middleware does not see.
NextVisitor ==
  \E r \in Slots :
    \/ arrive(r)
    \/ \E in \in VisitorCreateInputs :
          createOrder(r, in.user, in.items, in.address, in.paymentMethod)
    \/ CreateSteps(r, {TRUE}, {TRUE})
    \/ \E st \in {"Packed", "Shipped"}, u \in {"admin", "u1"} :
          updateOrderStatus(r, u, 1, st)
    \/ UpdateSteps(r, {TRUE})
    \/ getOrders(r, "admin", Query("", "", "", 1, 10, FALSE), <<>>)
    \/ joinAdmin(r, "s1", JoinArg(TRUE, "Bearer jwtAdmin"))
    \/ joinFindUser(r)
    \/ \E ok \in BOOLEAN : newVisitorLookup(r, ok)

SpecVisitor == InitVisitor /\ [][NextVisitor]_vars

\* Every operation, with the inputs of the specifications above.
Next ==
  \/ NextCreate \/ NextStatus \/ NextTotals \/ NextAccess \/ NextNotify
  \/ NextNumbers \/ NextPayment \/ NextAddress \/ NextDelete \/ NextPush
  \/ NextHeal \/ NextSerial \/ NextSockets \/ NextList \/ NextCart
  \/ NextSubscribe \/ NextUnnumbered \/ NextBank \/ NextBook \/ NextVisitor

Spec == Init /\ [][Next]_vars

\* ------------------------------------------------------------------ claims
\* The step in which the request of slot r starts.
Started(r) == started' = started + 1 /\ req'[r].n = started'

Running(r, kind, pc) == req[r].kind = kind /\ req[r].pc = pc
Finished(r, kind, code) == Running(r, kind, "done") /\ req[r].code = code

\* Units of product p in an item list.
RECURSIVE quantityOf(_, _)
quantityOf(items, p) ==
  IF items = <<>> THEN 0
  ELSE (IF items[1].product = p THEN items[1].quantity ELSE 0)
       + quantityOf(Tail(items), p)

\* Sum of price * quantity over the lines of an order, by index.
RECURSIVE SumOfLines(_, _)
SumOfLines(items, k) ==
  IF k = 0 THEN 0 ELSE items[k].price * items[k].quantity + SumOfLines(items, k - 1)

IsPrefix(s, t) == Len(s) <= Len(t) /\ SubSeq(t, 1, Len(s)) = s

\* C1: under any interleaving of concurrent createOrder requests the stock
\* of every product is >= 0 in every reachable state.
C1_StockNeverNegative == \A p \in Products : stock[p] >= 0

\* C2: two createOrder requests that overlap in time and whose quantities of
\* a product together exceed the stock the first one found never both
\* succeed.  (Slot 2 is only used while slot 1 is busy, so the requests
\* overlapped when the one in slot 1 is the older.)
C2_OverlappingCreationsNeverAllSucceed ==
  \A p \in Products :
    ( /\ Running(1, "createOrder", "done") /\ Running(2, "createOrder", "done")
      /\ req[1].n < req[2].n
      /\ quantityOf(req[1].items, p) >= 1 /\ quantityOf(req[2].items, p) >= 1
      /\ quantityOf(req[1].items, p) + quantityOf(req[2].items, p) > req[1].stock0[p] )
    => ~(req[1].code = 201 /\ req[2].code = 201)

\* C3: the orderNumber values of the persisted orders are pairwise distinct,
\* in any interleaving of the requests' count, uniqueness-check and save steps.
C3_OrderNumbersDistinct ==
  \A o1 \in orders, o2 \in orders : o1.orderNumber = o2.orderNumber => o1.id = o2.id

\* C3 witness: two requests derived the same number, one insert was rejected.
C3_Witness == orders # {} /\ \E r \in Slots : req[r].err = "DuplicateKey"

\* C4: every persisted order has a non-empty tracking log whose last entry's
\* status is the order's current status.
C4_TrackingEndsWithStatus ==
  \A o \in orders : o.tracking # <<>> /\ o.tracking[Len(o.tracking)] = o.status

\* C5: across every step, the tracking log an order had is a prefix of the one
\* it has afterwards.
C5_TrackingAppendOnly ==
  [][\A o \in orders : \A o2 \in orders' :
       o2.id = o.id => IsPrefix(o.tracking, o2.tracking)]_vars

\* C5 witness: an order whose log was appended to twice.
C5_Witness == \E o \in orders : Len(o.tracking) >= 2

\* C6: every persisted order has total = subtotal + deliveryFee and
\* subtotal = sum of price * quantity over its items.
C6_TotalsConsistent ==
  \A o \in orders :
    /\ o.total = o.subtotal + o.deliveryFee
    /\ o.subtotal = SumOfLines(o.items, Len(o.items))

\* C6 witness: an order with subtotal 0 that a status update has gone through
\* (the update took the recalculation branch and saved).
C6_Witness == \E o \in orders : o.subtotal = 0 /\ o.tracking # <<>>

\* C7: updateOrderStatus or deleteOrder by a requester who is no admin ends at
\* once with 403 and changes no order, no stock, and emits nothing.
C7_NonAdminRefused ==
  [][\A r \in Slots :
       ( /\ Started(r)
         /\ req'[r].kind \in {"updateOrderStatus", "deleteOrder"}
         /\ ~isAdmin(req'[r].user) )
       => ( /\ req'[r].pc = "done" /\ req'[r].code = 403
            /\ orders' = orders /\ stock' = stock /\ emitted' = emitted )]_vars

\* C7 witness: a non-admin deleteOrder of an existing order was refused.
C7_Witness ==
  \E r \in Slots : /\ Finished(r, "deleteOrder", 403)
                   /\ ~isAdmin(req[r].user) /\ hasOrder(req[r].id)

\* C8: getOrder and trackOrder answer a non-admin who asks for an existing
\* order of another user with 403 and no order; a 200 goes to an admin or to
\* the order's owner only.
C8_ReadsRefusedToOtherUsers ==
  [][\A r \in Slots :
       LET q == req'[r]
           other(o) == ~isAdmin(q.user) /\ o.user # q.user
       IN (Started(r) /\ q.kind \in {"getOrder", "trackOrder"}) =>
            /\ (q.kind = "getOrder" /\ hasOrder(q.id) /\ other(findById(q.id)))
                 => (q.code = 403 /\ q.body = NoDoc)
            /\ (q.kind = "trackOrder" /\ hasOrderNumber(q.arg)
                  /\ other(findOneByNumber(q.arg)))
                 => (q.code = 403 /\ q.body = NoDoc)
            /\ q.code = 200 => (isAdmin(q.user) \/ q.body.user = q.user)]_vars

\* C8 witness: a user tracked another user's existing order and got 403.
C8_Witness ==
  \E r \in Slots : /\ Finished(r, "trackOrder", 403)
                   /\ hasOrderNumber(req[r].arg)

\* C9: an admin updateOrderStatus with the status the order has (when loaded
\* and when saved) leaves the order's tracking log as it is.
C9_ReapplyingStatusAppendsNothing ==
  [][\A r \in Slots :
       ( /\ Running(r, "updateOrderStatus", "save") /\ req'[r].pc # "save"
         /\ hasOrder(req[r].id)
         /\ req[r].arg = req[r].orig.status
         /\ req[r].arg = findById(req[r].id).status )
       => \A o2 \in orders' :
            o2.id = req[r].id => o2.tracking = findById(req[r].id).tracking]_vars

\* C10: after a createOrder that succeeded while no other request ran, every
\* product's stock is what the request found minus the quantity it ordered.
C10_StockAfterCreationAlone ==
  \A r \in Slots :
    (Finished(r, "createOrder", 201) /\ RanAlone(r)) =>
      \A p \in Products :
        stock[p] = req[r].stock0[p] - quantityOf(req[r].items, p)

\* C10 witness: such a creation of an order with two products.
C10_Witness ==
  \E r \in Slots : /\ Finished(r, "createOrder", 201) /\ RanAlone(r)
                   /\ Len(req[r].items) = 2

\* A createOrder body that passes the checks made before the stock check:
\* payment method, items, and one stored product per item.
WellFormedCreate(q) ==
  /\ q.kind = "createOrder"
  /\ q.paymentMethod \in validPaymentMethods
  /\ q.items # <<>>
  /\ \A k \in DOMAIN q.items :
       /\ q.items[k].product \in Products
       /\ q.items[k].quantity >= 1 /\ q.items[k].price >= 0
       /\ \A j \in DOMAIN q.items : j # k => q.items[j].product # q.items[k].product

\* C11: a createOrder (well-formed up to the stock check) in which some item
\* asks for more than its product's stock when the products are read ends
\* with 400 InsufficientStock, persists no order, leaves every product's
\* stock as it is and emits nothing.
C11_InsufficientStockChangesNothing ==
  [][\A r \in Slots :
       ( /\ Started(r) /\ WellFormedCreate(req'[r])
         /\ \E k \in DOMAIN req'[r].items :
              stock[req'[r].items[k].product] < req'[r].items[k].quantity )
       => ( /\ req'[r].pc = "done" /\ req'[r].code = 400
            /\ req'[r].err = "InsufficientStock"
            /\ orders' = orders /\ stock' = stock /\ emitted' = emitted
            /\ ~req'[r].persisted /\ req'[r].out = <<>> )]_vars

\* C11 witness: a request for two products was refused for its second item,
\* the first being in stock.
C11_Witness ==
  \E r \in Slots :
    /\ Finished(r, "createOrder", 400) /\ req[r].err = "InsufficientStock"
    /\ Len(req[r].items) = 2
    /\ req[r].stock0[req[r].items[1].product] >= req[r].items[1].quantity

\* The events of a sequence that tell of an order: newOrder, orderStatusUpdate.
OrderEvents(events) ==
  SelectSeq(events, LAMBDA e : e.event \in {"newOrder", "orderStatusUpdate"})

\* What a step appended to the emitted events.
NewlyEmitted == SubSeq(emitted', Len(emitted) + 1, Len(emitted'))

\* C12: whenever a step of a createOrder or updateOrderStatus request emits
\* newOrder or orderStatusUpdate, the request's write of the order went through
\* in an earlier step; a request whose write did not go through has emitted
\* neither event, at any time.
C12_EmitOnlyAfterPersisted ==
  [][\A r \in Slots :
       req'[r].kind \in {"createOrder", "updateOrderStatus"} =>
         /\ ( /\ req'[r].n = req[r].n /\ req'[r].out # req[r].out
              /\ OrderEvents(NewlyEmitted) # <<>> )
            => ( /\ req[r].persisted
                 /\ req'[r].out = req[r].out \o NewlyEmitted )
         /\ ~req'[r].persisted => OrderEvents(req'[r].out) = <<>>]_vars

\* C12 witness: an updateOrderStatus whose save failed (the order was deleted
\* after it was loaded) has ended and emitted nothing, and another request
\* has emitted after its write.
C12_Witness ==
  /\ \E r \in Slots : /\ Finished(r, "updateOrderStatus", 400)
                       /\ req[r].err = "DocumentNotFound" /\ req[r].out = <<>>
  /\ OrderEvents(emitted) # <<>>

\* C13: a createOrder or updateOrderStatus whose write of the order went
\* through ends with a success and the order as its body, whatever happens to
\* the notifications that follow.
C13_NotificationFailureNotRaised ==
  \A r \in Slots :
    ( /\ req[r].kind \in {"createOrder", "updateOrderStatus"}
      /\ req[r].pc = "done" /\ req[r].persisted )
    => (req[r].code \in {200, 201} /\ req[r].body # NoDoc)

\* The orderStatusUpdate events of a sequence that went to the given rooms.
StatusUpdatesTo(events, rooms) ==
  SelectSeq(events, LAMBDA e : e.event = "orderStatusUpdate" /\ e.room \in rooms)

UserRooms == {userRoom(u) : u \in Users}

\* C14: an updateOrderStatus whose save went through has, when it ends,
\* emitted exactly one orderStatusUpdate to the admin room and exactly one to
\* a user's room, that of the order's owner.
C14_OneUpdatePerChannel ==
  \A r \in Slots :
    ( /\ req[r].kind = "updateOrderStatus" /\ req[r].pc = "done"
      /\ req[r].persisted )
    => /\ Len(StatusUpdatesTo(req[r].out, {"adminRoom"})) = 1
       /\ Len(StatusUpdatesTo(req[r].out, UserRooms)) = 1
       /\ hasOrder(req[r].id) =>
            Len(StatusUpdatesTo(req[r].out, {userRoom(findById(req[r].id).user)})) = 1

\* The transitions of the order lifecycle: one step along Placed, Packed,
\* In Transit, Delivered, or to Cancelled from a status that is not terminal.
LifecycleStep(from, to) ==
  \/ from = "Placed" /\ to = "Packed"
  \/ from = "Packed" /\ to = "In Transit"
  \/ from = "In Transit" /\ to = "Delivered"
  \/ from \in {"Placed", "Packed", "In Transit"} /\ to = "Cancelled"

\* C15: every change of a stored order's status made by updateOrderStatus is
\* a transition of the lifecycle; in particular a Delivered or Cancelled
\* order keeps its status.
C15_StatusFollowsLifecycle ==
  [][\A r \in Slots :
       (Running(r, "updateOrderStatus", "save") /\ req'[r].pc # "save") =>
         \A o \in orders : \A o2 \in orders' :
           (o2.id = o.id /\ o2.status # o.status) => LifecycleStep(o.status, o2.status)]_vars

\* C16: after an updateOrderStatus to Delivered that answered 200, the order
\* sent back and the stored order have deliveredAt; an order whose tracking
\* log has no Delivered entry has none.
C16_DeliveredAtSet ==
  /\ \A r \in Slots :
       (Finished(r, "updateOrderStatus", 200) /\ req[r].arg = "Delivered") =>
         /\ req[r].body.deliveredAt
         /\ hasOrder(req[r].id) => findById(req[r].id).deliveredAt
  /\ \A o \in orders :
       (\A k \in DOMAIN o.tracking : o.tracking[k] # "Delivered") => ~o.deliveredAt

\* C17: an order created by createOrder and then moved by one successful
\* updateOrderStatus to another status has the tracking log << Placed, the
\* new status >> (k + 1 entries after k status changes, here k = 1).  The
\* second request of a behaviour, started after the first had ended, is such
\* an update when it answered 200: the order it names was created by the
\* first.
C17_TwoEntriesAfterOneChange ==
  \A r \in Slots :
    ( /\ Finished(r, "updateOrderStatus", 200)
      /\ req[r].n = 2 /\ started = 2 /\ req[r].quiet
      /\ req[r].arg # "Placed" )
    => findById(req[r].id).tracking = <<"Placed", req[r].arg>>

\* 'ORD-' and n written with six digits, for n below a million.
SixDigits(n) ==
  "ORD-" \o (CASE n < 10 -> "00000" [] n >= 10 /\ n < 100 -> "0000"
                [] n >= 100 /\ n < 1000 -> "000" [] n >= 1000 /\ n < 10000 -> "00"
                [] n >= 10000 /\ n < 100000 -> "0" [] OTHER -> "")
         \o ToString(n)

\* C18: the number a createOrder generates is 'ORD-' and the count of stored
\* orders at that moment plus one, in six digits; it is the number the order
\* is inserted with, and the inserted order has status Placed, paymentStatus
\* pending and deliveryFee 5000.
C18_CreatedOrderDefaults ==
  [][\A r \in Slots :
       (req[r].kind = "createOrder" /\ req'[r].n = req[r].n) =>
         /\ (req[r].pc = "preSaveCount" /\ req'[r].pc = "preSaveFind") =>
              req'[r].doc.orderNumber = SixDigits(Cardinality(orders) + 1)
         /\ (req[r].pc = "preSaveFind" /\ req'[r].pc = "insert") =>
              req'[r].doc.orderNumber = req[r].doc.orderNumber
         /\ (req[r].pc = "insert" /\ req'[r].pc = "clearCart") =>
              \E o \in orders' :
                /\ o \notin orders /\ orders' = orders \cup {o}
                /\ o.id = req[r].doc.id /\ o.user = req[r].user
                /\ o.orderNumber = req[r].doc.orderNumber
                /\ o.status = "Placed" /\ o.paymentStatus = "pending"
                /\ o.deliveryFee = 5000]_vars

\* C18 witness: a second order is stored, numbered ORD-000002, and its
\* createOrder has answered 201.
C18_Witness ==
  \E r \in Slots :
    /\ Finished(r, "createOrder", 201)
    /\ req[r].body.orderNumber = "ORD-000002" /\ req[r].body \in orders

\* C19: an admin's updateOrderStatus with a status outside Placed, Packed,
\* In Transit, Delivered, Cancelled ends at once with 400 InvalidStatus;
\* no order changes and nothing is emitted.
C19_InvalidStatusRefused ==
  [][\A r \in Slots :
       ( /\ Started(r) /\ req'[r].kind = "updateOrderStatus"
         /\ isAdmin(req'[r].user)
         /\ req'[r].arg \notin {"Placed", "Packed", "In Transit", "Delivered",
                                 "Cancelled"} )
       => ( /\ req'[r].pc = "done" /\ req'[r].code = 400
            /\ req'[r].err = "InvalidStatus"
            /\ orders' = orders /\ emitted' = emitted
            /\ ~req'[r].persisted /\ req'[r].out = <<>> )]_vars

\* C19 witness: an admin asked for status Refunded on a stored order and was
\* refused.
C19_Witness ==
  \E r \in Slots :
    /\ Finished(r, "updateOrderStatus", 400) /\ req[r].err = "InvalidStatus"
    /\ isAdmin(req[r].user) /\ req[r].arg = "Refunded" /\ hasOrder(req[r].id)

\* C20: a createOrder whose candidate number is taken goes round the
\* pre-save loop at most 3 times in all and then fails with
\* OrderNumberExhausted, nothing inserted: no request begins a fourth round,
\* and a request that has begun three rounds and finds its third candidate
\* taken ends with that error.  Stated of requests none of whose store reads
\* failed, so that every round but the last ended with a taken candidate.
C20_AtMostThreeAttempts ==
  [][\A r \in Slots :
       ( /\ req[r].kind = "createOrder" /\ req'[r].n = req[r].n
         /\ req[r].attempts = 0 /\ req'[r].attempts = 0 ) =>
         /\ req'[r].rounds <= maxAttempts
         /\ ( /\ req[r].pc = "preSaveFind" /\ req'[r].pc # "preSaveFind"
              /\ req[r].rounds = maxAttempts
              /\ hasOrderNumber(req[r].doc.orderNumber) )
            => ( /\ req'[r].pc = "done" /\ req'[r].err = "OrderNumberExhausted"
                 /\ orders' = orders )]_vars

\* C21: verifyPaymentProof by a requester who is no admin ends at once with
\* 403 and changes nothing; the save of a verifyPaymentProof that answers 200
\* changes the stored order's paymentStatus and nothing else, status and
\* tracking log included, and touches no other order.
C21_PaymentVerificationFrame ==
  [][\A r \in Slots :
       /\ ( /\ Started(r) /\ req'[r].kind = "verifyPaymentProof"
            /\ ~isAdmin(req'[r].user) )
          => ( /\ req'[r].pc = "done" /\ req'[r].code = 403
               /\ orders' = orders /\ emitted' = emitted )
       /\ ( /\ Running(r, "verifyPaymentProof", "save")
            /\ req'[r].pc = "done" /\ req'[r].code = 200 )
          => \E o \in orders :
               /\ o.id = req[r].id
               /\ orders' = (orders \ {o})
                              \cup {[o EXCEPT !.paymentStatus = req[r].arg]}]_vars

\* C21 witness: a payment was verified on an order whose status an update
\* had changed after the verification had loaded it.
C21_Witness ==
  \E r \in Slots :
    /\ Finished(r, "verifyPaymentProof", 200)
    /\ hasOrder(req[r].id)
    /\ findById(req[r].id).paymentStatus = "completed"
    /\ findById(req[r].id).status # req[r].body.status

\* C22: createOrder naming an address that does not exist answers 404, one
\* of another user 403, one without state or country 400; that step persists
\* no order, leaves the stock alone and emits nothing, and a request that ran
\* alone leaves the stock as it found it.
C22_AddressErrorsChangeNothing ==
  [][\A r \in Slots :
       (req[r].kind = "createOrder" /\ req[r].pc = "findAddress"
          /\ req'[r] # req[r]) =>
         LET a == req[r].address
             u == req[r].user
             gone == a \notin DOMAIN addresses
             foreign == ~gone /\ addresses[a].user # u
             partial == ~gone /\ ~foreign
                          /\ (addresses[a].state = "" \/ addresses[a].country = "")
         IN /\ gone => req'[r].code = 404
            /\ foreign => req'[r].code = 403
            /\ partial => req'[r].code = 400
            /\ (gone \/ foreign \/ partial) =>
                 /\ req'[r].pc = "done"
                 /\ ~req'[r].persisted /\ req'[r].out = <<>>
                 /\ orders' = orders /\ stock' = stock /\ emitted' = emitted
                 /\ (req'[r].quiet /\ req'[r].n = started') => stock' = req'[r].stock0
    ]_vars

\* Two refused creations side by side: another user's address and an address
\* without state; nothing is stored.
C22_Witness ==
  /\ \E r \in Slots : Finished(r, "createOrder", 403) /\ req[r].address = "a2"
  /\ \E r \in Slots : Finished(r, "createOrder", 400) /\ req[r].address = "a3"
                        /\ req[r].err = "AddressInvalid"
  /\ orders = {} /\ emitted = <<>>
  /\ stock = [p \in Products |-> InitStock]

\* The documents removed by the finished successful deleteOrder requests.
Deleted == {req[s].orig : s \in {t \in Slots : Finished(t, "deleteOrder", 200)}}

\* C23: deleteOrder by an admin removes an existing order and answers 404,
\* changing nothing, when there is none; from then on no order has the
\* removed order's id or number, so that getOrder, updateOrderStatus and
\* trackOrder naming it answer 404.
C23_DeletedOrderStaysGone ==
  [][/\ \A r \in Slots :
          (Started(r) /\ req'[r].kind = "deleteOrder" /\ isAdmin(req'[r].user)) =>
            IF hasOrder(req'[r].id)
              THEN /\ req'[r].code = 200
                   /\ orders' = orders \ {findById(req'[r].id)}
              ELSE /\ req'[r].code = 404
                   /\ orders' = orders /\ emitted' = emitted /\ stock' = stock
     /\ \A d \in Deleted' :
          /\ \A o \in orders' : o.id # d.id /\ o.orderNumber # d.orderNumber
          /\ \A r \in Slots :
               Started(r) =>
                 /\ (req'[r].kind \in {"getOrder", "updateOrderStatus"}
                       /\ req'[r].id = d.id) => req'[r].code = 404
                 /\ (req'[r].kind = "trackOrder"
                       /\ req'[r].arg = d.orderNumber) => req'[r].code = 404
    ]_vars

\* C24: a stored order keeps its orderNumber, its user and its items
\* (product, quantity and price of each) through every step of the status
\* updates and payment verifications.
C24_IdentityAndItemsFixed ==
  [][\A o \in orders : \A p \in orders' :
       p.id = o.id =>
         p.orderNumber = o.orderNumber /\ p.user = o.user /\ p.items = o.items
    ]_vars

\* An order that went through a status update and a payment verification.
C24_Witness ==
  \E o \in orders :
    /\ o.status = "Delivered" /\ o.paymentStatus = "completed"
    /\ o.orderNumber = orderNumberFor(0)
    /\ o.items = <<Item("pA", 1, 1000)>> /\ o.user = "u1"

\* C25: a stored order keeps its addressId through every step, also after
\* its owner deleted the address and an admin updated the status.
C25_AddressIdFixed ==
  [][\A o \in orders : \A p \in orders' :
       p.id = o.id => p.addressId = o.addressId
    ]_vars

\* The subscriptions request number n tried to send to, in order.
AttemptsOf(log, n) ==
  LET mine == SelectSeq(log, LAMBDA a : a.n = n)
  IN [k \in DOMAIN mine |-> mine[k].subscription]

Occurrences(seq, x) == Cardinality({k \in DOMAIN seq : seq[k] = x})

\* C26: the push loop of the socket handler tries every subscription it
\* found for the owner, in order; a send that succeeds leaves the stored
\* subscriptions alone; after a send that fails exactly the owner's record of
\* that subscription is removed (if it is still there), and the loop goes on.
C26_FanOutIsolatesFailures ==
  [][\A r \in Slots :
       (req[r].kind = "onOrderStatusUpdate" /\ req'[r] # req[r]) =>
         /\ (req[r].pc = "send" /\ req'[r].pc # "purge") =>
               subscriptions' = subscriptions
         /\ req[r].pc = "purge" =>
               LET d == Subscription(req[r].doc.user, req[r].found[req[r].i])
               IN \A x \in {subscriptions[k] : k \in DOMAIN subscriptions} :
                    Occurrences(subscriptions', x) =
                      IF x = d THEN Occurrences(subscriptions, x) - 1
                               ELSE Occurrences(subscriptions, x)
         /\ (req[r].pc \in {"find", "send", "purge"} /\ req'[r].pc = "done") =>
               AttemptsOf(pushLog', req'[r].n) = req'[r].found
    ]_vars

\* C27: when a createOrder or updateOrderStatus has succeeded and no other
\* request ran meanwhile or since, a send has been attempted, by it or after
\* it, to every subscription stored for the order's owner.
C27_PushFollowsSuccess ==
  \A r \in Slots :
    (RanAlone(r) /\ (Finished(r, "createOrder", 201)
                       \/ Finished(r, "updateOrderStatus", 200))) =>
      \A k \in matching(req[r].body.user) :
        \E j \in DOMAIN pushLog :
          /\ pushLog[j].n >= req[r].n
          /\ pushLog[j].userId = req[r].body.user
          /\ pushLog[j].subscription = subscriptions[k].subscription

\* C28: a createOrder whose save fails after the stock was decremented (the
\* hook gives up, or the insert is rejected) answers 400, stores no order and
\* leaves the stock as decremented: for a request that ran alone, what it
\* found minus the quantities it ordered.
C28_FailedSaveKeepsDecrement ==
  [][\A r \in Slots :
       (req[r].kind = "createOrder"
          /\ req[r].pc \in {"preSaveCount", "preSaveFind", "insert"}
          /\ req'[r].pc = "done") =>
         /\ req'[r].code = 400
         /\ req'[r].err \in {"OrderNumberExhausted", "DuplicateKey"}
         /\ ~req'[r].persisted
         /\ orders' = orders /\ \A o \in orders' : o.id # req[r].doc.id
         /\ stock' = stock
         /\ (req'[r].quiet /\ req'[r].n = started') =>
              \A p \in Products :
                stock'[p] = req'[r].stock0[p] - quantityOf(req'[r].items, p)
    ]_vars

\* A creation that ran alone and failed in the hook: one unit of pA is gone
\* and the store holds the one order it held before.
C28_Witness ==
  \E r \in Slots :
    /\ Finished(r, "createOrder", 400) /\ req[r].err = "OrderNumberExhausted"
    /\ RanAlone(r)
    /\ stock["pA"] = req[r].stock0["pA"] - 1
    /\ \A o \in orders : o.user # req[r].user

\* C29: every orderStatusUpdate event a step emits names an order that is in
\* the store, with the status the stored order has.
C29_EventsCarryStoredStatus ==
  [][\A k \in DOMAIN NewlyEmitted :
       NewlyEmitted[k].event = "orderStatusUpdate" =>
         \E o \in orders' : /\ o.id = NewlyEmitted[k].order
                             /\ o.status = NewlyEmitted[k].status
    ]_vars

\* An admin's updateOrderStatus with a valid status starts in slot r on a
\* stored order that lacks subtotal, total or a valid addressId.
StartsOnDeficient(r) ==
  /\ Started(r) /\ req'[r].kind = "updateOrderStatus"
  /\ isAdmin(req'[r].user) /\ req'[r].arg \in validStatuses
  /\ \E o \in orders :
       /\ o.id = req'[r].id
       /\ (o.subtotal = 0 \/ o.total = 0 \/ o.addressId \notin DOMAIN addresses)

\* Subtotal and total of doc are those of the loaded order o, or computed
\* from the items where o lacked them.
Recomputed(o, doc) ==
  LET sub == IF o.subtotal = 0 THEN SumOfLines(o.items, Len(o.items)) ELSE o.subtotal
      fee == IF o.deliveryFee = 0 THEN deliveryFeeDefault ELSE o.deliveryFee
  IN /\ doc.subtotal = sub
     /\ doc.total = (IF o.total = 0 THEN sub + fee ELSE o.total)

\* Slot r's updateOrderStatus looks for an address of the owner in this step.
LooksForAddress(r) ==
  /\ req[r].kind = "updateOrderStatus" /\ req[r].pc = "findAddress"
  /\ req'[r] # req[r]

\* Slot r's updateOrderStatus goes on to order.save() with the status asked
\* for and the recomputed amounts.
GoesToSave(r) ==
  /\ req'[r].pc \in {"save", "preSaveCount"}
  /\ req'[r].doc.status = req'[r].arg
  /\ Recomputed(req'[r].orig, req'[r].doc)

\* The save step of an updateOrderStatus writes what the handler changed.
SaveWritesRepairs ==
  \A r \in Slots :
    (req[r].kind = "updateOrderStatus" /\ req[r].pc = "save"
       /\ req'[r] # req[r] /\ hasOrder(req[r].doc.id)) =>
      \E p \in orders' :
        /\ p.id = req[r].doc.id
        /\ req[r].doc.subtotal # req[r].orig.subtotal => p.subtotal = req[r].doc.subtotal
        /\ req[r].doc.total # req[r].orig.total => p.total = req[r].doc.total
        /\ req[r].doc.addressId # req[r].orig.addressId
              => p.addressId = req[r].doc.addressId
        /\ req[r].doc.deliveryFee # req[r].orig.deliveryFee
              => p.deliveryFee = req[r].doc.deliveryFee
        /\ req[r].doc.status # req[r].orig.status => p.status = req[r].doc.status

\* C30 as stated: an admin's updateOrderStatus on an order lacking subtotal,
\* total or a valid addressId repairs the order and goes on to save it with
\* the new status; it does not fail.
C30_SelfHealingNeverFails ==
  [][/\ \A r \in Slots :
          /\ StartsOnDeficient(r) =>
                LET o == findById(req'[r].id)
                IN IF o.addressId \in DOMAIN addresses
                     THEN GoesToSave(r) /\ req'[r].doc.addressId = o.addressId
                     ELSE req'[r].pc = "findAddress" /\ Recomputed(o, req'[r].doc)
          /\ LooksForAddress(r) =>
                /\ GoesToSave(r)
                /\ req'[r].doc.addressId \in DOMAIN addresses
                /\ addresses[req'[r].doc.addressId].user = req[r].doc.user
     /\ SaveWritesRepairs
    ]_vars

\* C30 amended: the same when the order's address is there or its owner has
\* an address left when the handler looks for one; when the address is gone
\* and the owner has none, the request answers 400 and changes nothing.
C30_SelfHealingGivenAnAddress ==
  [][/\ \A r \in Slots :
          /\ StartsOnDeficient(r) =>
                LET o == findById(req'[r].id)
                IN IF o.addressId \in DOMAIN addresses
                     THEN GoesToSave(r) /\ req'[r].doc.addressId = o.addressId
                     ELSE req'[r].pc = "findAddress" /\ Recomputed(o, req'[r].doc)
          /\ LooksForAddress(r) =>
                IF \A a \in DOMAIN addresses : addresses[a].user # req[r].doc.user
                  THEN /\ req'[r].pc = "done" /\ req'[r].code = 400
                       /\ orders' = orders /\ emitted' = emitted
                  ELSE /\ GoesToSave(r)
                       /\ req'[r].doc.addressId = firstAddress(req[r].doc.user)
                       /\ addresses[req'[r].doc.addressId].user = req[r].doc.user
     /\ SaveWritesRepairs
    ]_vars

\* The old order repaired and packed; its owner then deleted the address and
\* a further update was refused.
C30_Witness ==
  /\ \E o \in orders :
       /\ o.id = 1 /\ o.subtotal = 1000 /\ o.total = 6000
       /\ o.addressId = "a2" /\ o.status = "Packed"
  /\ \E r \in Slots : /\ Finished(r, "updateOrderStatus", 400)
                        /\ req[r].err = "NoValidAddress"

\* No two neighbours of a tracking log have the same status.
NoAdjacentRepeat(t) == \A k \in 1 .. (Len(t) - 1) : t[k] # t[k + 1]

\* Slot r saves an updateOrderStatus whose document was loaded before the
\* updateOrderStatus of slot s, for the same order, saved its own.
SecondOfTwoSaves(r, s) ==
  /\ req[r].kind = "updateOrderStatus" /\ req[r].pc = "save" /\ req'[r] # req[r]
  /\ req[s].kind = "updateOrderStatus" /\ req[s].pc \in {"notify", "populate"}
  /\ req[s].persisted
  /\ req[s].doc.id = req[r].doc.id /\ req[s].orig = req[r].orig

\* C31: when two updateOrderStatus requests for one order both load it
\* before either saves, the order stored after the second save has the status
\* one of them asked for, its last tracking entry is that status, and no two
\* neighbouring tracking entries are equal.
C31_ConcurrentUpdatesLeaveCleanLog ==
  [][\A r \in Slots : \A s \in Slots \ {r} :
       SecondOfTwoSaves(r, s) =>
         \A o \in orders' :
           o.id = req[r].doc.id =>
             /\ o.status \in {req[r].arg, req[s].arg}
             /\ o.tracking # <<>> /\ o.tracking[Len(o.tracking)] = o.status
             /\ NoAdjacentRepeat(o.tracking)
    ]_vars

\* C32: every item of a stored order carries the price its product has in
\* the product store.
C32_ItemPriceIsProductPrice ==
  \A o \in orders :
    \A k \in DOMAIN o.items :
      o.items[k].price = productPrice[o.items[k].product]

\* C33: a createOrder that has reached order.save() (its pre-save hook is
\* about to count) ends, with a success or an error.
C33_CreationCompletes ==
  \A r \in Slots :
    (req[r].kind = "createOrder" /\ req[r].pc = "preSaveCount")
      ~> (req[r].pc = "done")

\* The count an order number was made from.
CountOf(num) == CHOOSE c \in 0 .. nextOid : orderNumberFor(c) = num

\* C34: no order is stored under the number of an order that a deleteOrder
\* removed, and the number a creation stores is above every number in the
\* store.
C34_NumbersNeverReused ==
  [][/\ \A d \in Deleted' : \A o \in orders' : o.orderNumber # d.orderNumber
     /\ \A r \in Slots :
          (req[r].kind = "createOrder" /\ req[r].pc = "insert"
             /\ orders' # orders) =>
            \A o \in orders :
              CountOf(o.orderNumber) < CountOf(req[r].doc.orderNumber)
    ]_vars

\* C35: with creations run one at a time no product's stock is ever
\* negative; a list naming a product twice does not pass the product check,
\* so every creation that succeeds names each product once.
C35_SerialStockNeverNegative ==
  /\ \A p \in Products : stock[p] >= 0
  /\ \A r \in Slots :
       Finished(r, "createOrder", 201) =>
         \A j, k \in DOMAIN req[r].items :
           req[r].items[j].product = req[r].items[k].product => j = k

\* After a creation took the last unit of pA, a list naming pA twice was
\* refused by the product check.
C35_Witness ==
  /\ stock["pA"] = 0
  /\ \E r \in Slots :
       /\ Finished(r, "createOrder", 400) /\ req[r].err = "ProductsNotFound"
       /\ Len(req[r].items) = 2
       /\ req[r].items[1].product = req[r].items[2].product

\* The join message m carries a token that verifies to user id.
VerifiesTo(m, id) == m.arg.given /\ jwtVerify(stripBearer(m.arg.token)) = id

\* Socket s is only in rooms it has sent a good join for: adminRoom after a
\* joinAdmin whose token verifies to an existing admin, user_<id> after a
\* joinUser whose token verifies to the existing user <id>.
MemberOnlyIfVerified(ss) ==
  \A s \in SocketIds : \A room \in ss[s].rooms :
    \/ /\ room = "adminRoom"
       /\ \E m \in ss[s].joins : \E id \in Users :
            m.event = "joinAdmin" /\ VerifiesTo(m, id) /\ isAdmin(id)
    \/ \E id \in Users :
         /\ room = userRoom(id)
         /\ \E m \in ss[s].joins : m.event = "joinUser" /\ VerifiesTo(m, id)

\* The join that the step of slot r ends does not pass verification: its
\* token is missing or does not verify, or it verifies to nobody in the user
\* store or, for joinAdmin, to a user who is no admin.
JoinFails(r) ==
  /\ req'[r].kind \in {"joinAdmin", "joinUser"}
  /\ req'[r].pc = "done" /\ req'[r] # req[r]
  /\ LET id == jwtVerify(stripBearer(req'[r].arg))
     IN \/ id \notin Users
        \/ req'[r].kind = "joinAdmin" /\ ~isAdmin(id)

\* C36: a socket is in adminRoom or in a user's room only after a join with
\* a token that verifies accordingly, and a join that fails verification
\* leaves the socket disconnected and in no room.
C36_RoomsOnlyAfterVerifiedJoin ==
  [][/\ MemberOnlyIfVerified(sockets')
     /\ \A r \in Slots :
          JoinFails(r) =>
            /\ ~sockets'[req'[r].socket].connected
            /\ sockets'[req'[r].socket].rooms = {}
    ]_vars

\* The step in which slot r answers a getOrders of a requester who is no
\* admin.
ListsForCustomer(r) ==
  /\ req'[r].kind = "getOrders" /\ req'[r].pc = "done" /\ req'[r] # req[r]
  /\ ~isAdmin(req'[r].user)

\* C37: a getOrders of a requester who is no admin returns and counts
\* orders of that requester only, whatever the filters, the page, the
\* pattern asked for and the engine's answer to it: every order of the list
\* variant is a stored order of the requester, none twice; the orders the
\* count variant counted are stored orders of the requester and the count
\* it answers is exactly their number; a request that is refused returns
\* and counts nothing.
C37_ListingShowsOwnOrdersOnly ==
  [][\A r \in Slots :
       ListsForCustomer(r) =>
         LET done == req'[r]
             own == {o \in orders : o.user = done.user}
         IN /\ \A k \in DOMAIN done.list :
                 /\ \E o \in own : done.list[k] = hydrate(o)
                 /\ \A j \in DOMAIN done.list : done.list[j].id = done.list[k].id => j = k
            /\ done.counted \subseteq {o.id : o \in own}
            /\ done.count = Cardinality(done.counted)
            /\ done.counted # {} => done.list = <<>>
            /\ done.code # 200 => done.list = <<>> /\ done.count = 0
    ]_vars

\* A customer got a page of their two orders and counted them while the
\* store held another customer's order.
C37_Witness ==
  /\ \E o \in orders : o.user = "u2"
  /\ \E r \in Slots :
       /\ req[r].kind = "getOrders" /\ req[r].user = "u1" /\ req[r].code = 200
       /\ Len(req[r].list) = 2
  /\ \E r \in Slots :
       /\ req[r].kind = "getOrders" /\ req[r].user = "u1" /\ req[r].code = 200
       /\ req[r].count = 2 /\ req[r].counted = {1, 3}

\* The systemAlert request r has sent, if any.
Alerted(rec) == \E k \in DOMAIN rec.out : rec.out[k].event = "systemAlert"

\* C38: a createOrder whose cart block failed has told the admin room so
\* with a systemAlert, goes on, and ends with 201 and its order stored; one
\* that ends with 201 and whose cart block did not fail leaves the user's
\* cart without items.
C38_CartFailureIsNotFatal ==
  \A r \in Slots :
    req[r].kind = "createOrder" =>
      /\ Alerted(req[r]) =>
           /\ req[r].persisted
           /\ \E k \in DOMAIN emitted :
                emitted[k].room = "adminRoom" /\ emitted[k].event = "systemAlert"
           /\ req[r].pc = "done" =>
                /\ req[r].code = 201
                /\ \E o \in orders : o.id = req[r].body.id /\ o.user = req[r].user
      /\ (req[r].pc = "done" /\ req[r].code = 201 /\ ~Alerted(req[r])) =>
           carts[req[r].user].items = <<>>

\* One creation ended with 201 after its cart block failed; another ended
\* with 201 and the cart emptied.
C38_Witness ==
  /\ \E r \in Slots :
       /\ req[r].kind = "createOrder" /\ req[r].pc = "done" /\ req[r].code = 201
       /\ Alerted(req[r]) /\ req[r].persisted
  /\ \E r \in Slots :
       /\ req[r].kind = "createOrder" /\ req[r].pc = "done" /\ req[r].code = 201
       /\ ~Alerted(req[r]) /\ carts[req[r].user] = Cart(<<>>)

\* The subscriptions stored for user u in the collection subs.
StoredFor(subs, u) == {subs[k].subscription : k \in {j \in DOMAIN subs : subs[j].userId = u}}
RecordsOf(subs, u) == Cardinality({k \in DOMAIN subs : subs[k].userId = u})

\* The step in which slot r answers a subscribe request with success: 201
\* on /api/push/subscribe, 200 on /push-subscription.
Subscribes(r) ==
  /\ req'[r].kind \in {"subscribe", "pushSubscription"}
  /\ req'[r].pc = "done" /\ req'[r] # req[r]
  /\ req'[r].code = (IF req'[r].kind = "subscribe" THEN 201 ELSE 200)

\* C39: with subscribe requests served one at a time no user has two
\* subscription records; a request answered with success leaves its subscription as
\* the user's stored one and the other users' records as they were, and
\* nothing else changes the collection, so each user's record holds the
\* subscription of their latest request.
C39_OneRecordWithLatestSubscription ==
  [][/\ \A u \in Users : RecordsOf(subscriptions', u) <= 1
     /\ \A u \in Users :
          IF \E r \in Slots : Subscribes(r) /\ req'[r].user = u
            THEN \A r \in Slots :
                   Subscribes(r) => StoredFor(subscriptions', u) = {req'[r].arg}
            ELSE StoredFor(subscriptions', u) = StoredFor(subscriptions, u)
    ]_vars

\* The third request replaced the record u1 had stored before u2 stored
\* theirs.
C39_Witness ==
  /\ started = 3 /\ Len(subscriptions) = 2
  /\ subscriptions[1] = Subscription("u1", "e2")
  /\ subscriptions[2].userId = "u2"
  /\ req[1].kind = "subscribe" /\ req[1].pc = "done" /\ req[1].code = 201
  /\ req[1].user = "u1" /\ req[1].arg = "e2"

====
